---- MODULE Spec2Model ----
(***************************************************************************)
(* DyraSQL: a routing gateway in front of three Trino clusters.            *)
(*                                                                         *)
(* The module models, from the Python sources,                             *)
(*   - dyrasql-core/query_analyzer.py  (fingerprint, metadata detection,   *)
(*     complexity, the EXPLAIN probe),                                     *)
(*   - dyrasql-core/decision_engine.py (factors, score, cluster),          *)
(*   - dyrasql-core/history_manager.py (the DynamoDB decision cache),      *)
(*   - dyrasql-core/app.py             (the HTTP handlers of the core),    *)
(*   - trino-gateway-proxy/app.py      (the HTTP handlers of the proxy).   *)
(*                                                                         *)
(* Text is modelled as a sequence of tokens (words, blanks, punctuation);  *)
(* real numbers are fixed-point integers with Scale units per 1.0.         *)
(***************************************************************************)
EXTENDS Integers, Sequences, FiniteSets, TLC

(***************************************************************************)
(* Generic helpers                                                         *)
(***************************************************************************)
Min(a, b) == IF a < b THEN a ELSE b

Max(a, b) == IF a > b THEN a ELSE b

Range(s) == {s[i] : i \in 1..Len(s)}

\* F(v), with v evaluated once: a local variable of the code
With(v, F(_)) == CHOOSE r \in {F(x) : x \in {v}} : TRUE

\* s[i..] starts with the token sequence p
StartsWithAt(s, i, p) ==
    /\ i >= 1
    /\ i + Len(p) - 1 <= Len(s)
    /\ \A k \in 1..Len(p) : s[i + k - 1] = p[k]

StartsWith(s, p) == StartsWithAt(s, 1, p)

\* p occurs in s as a contiguous run (Python: p in s)
Contains(s, p) == \E i \in 1..(Len(s) + 1) : StartsWithAt(s, i, p)

(***************************************************************************)
(* Tokens of SQL text.  A blank token is one whitespace character; every   *)
(* other token is a maximal run of non-blank characters of one kind.       *)
(***************************************************************************)
Blanks == {" ", "\t", "\n"}

Digits == {"1", "2", "7"}

Quote == "\""

\* the words of the model's texts, as <<lower case, upper case>>
Words ==
    { <<"select", "SELECT">>, <<"show", "SHOW">>, <<"describe", "DESCRIBE">>,
      <<"desc", "DESC">>, <<"tables", "TABLES">>, <<"version", "VERSION">>,
      <<"current_date", "CURRENT_DATE">>, <<"as", "AS">>,
      <<"keepalive", "KEEPALIVE">>, <<"keep", "KEEP">>, <<"alive", "ALIVE">>,
      <<"from", "FROM">>, <<"where", "WHERE">>, <<"join", "JOIN">>,
      <<"count", "COUNT">>, <<"system", "SYSTEM">>, <<"jdbc", "JDBC">>,
      <<"information_schema", "INFORMATION_SCHEMA">>, <<"day", "DAY">>,
      <<"catalog", "CATALOG">>, <<"view", "VIEW">>, <<"not", "NOT">>,
      <<"found", "FOUND">>, <<"a", "A">>, <<"b", "B">>, <<"s", "S">>, <<"t", "T">>,
      <<"c", "C">>, <<"and", "AND">>, <<"hive", "HIVE">>, <<"iceberg", "ICEBERG">>,
      <<"'iceberg'", "'ICEBERG'">> }

\* words in mixed case, with their lower case
MixedCase == { <<"Select", "select">>, <<"Catalog", "catalog">>, <<"View", "view">> }

LowerOf ==
    [t \in {w[1] : w \in Words} \cup {w[2] : w \in Words} \cup {m[1] : m \in MixedCase} |->
        IF \E w \in Words : t \in {w[1], w[2]}
        THEN (CHOOSE w \in Words : t \in {w[1], w[2]})[1]
        ELSE (CHOOSE m \in MixedCase : m[1] = t)[2]]

UpperOf == [t \in DOMAIN LowerOf |-> (CHOOSE w \in Words : w[1] = LowerOf[t])[2]]

\* str.upper() on the tokens that have letters; other tokens are unchanged
UpperTok(t) == IF t \in DOMAIN UpperOf THEN UpperOf[t] ELSE t

\* str.lower()
LowerTok(t) == IF t \in DOMAIN LowerOf THEN LowerOf[t] ELSE t

Upper(s) == [i \in 1..Len(s) |-> UpperTok(s[i])]

Lower(s) == [i \in 1..Len(s) |-> LowerTok(s[i])]

RECURSIVE LStrip(_, _)
\* str.lstrip(): drop leading tokens that are in chars
LStrip(s, chars) ==
    IF s # <<>> /\ Head(s) \in chars THEN LStrip(Tail(s), chars) ELSE s

RECURSIVE RStrip(_, _)
\* str.rstrip()
RStrip(s, chars) ==
    IF s # <<>> /\ s[Len(s)] \in chars
    THEN RStrip(SubSeq(s, 1, Len(s) - 1), chars)
    ELSE s

\* str.strip(): leading and trailing whitespace removed
Strip(s) == RStrip(LStrip(s, Blanks), Blanks)

(***************************************************************************)
(* query_analyzer.py: fingerprint, metadata detection, complexity          *)
(***************************************************************************)
Punct == {";", "'", ".", "(", ")", ",", "=", "*", "?", "'?'"}

\* a token made of word characters (letters, digits, underscore)
IsWordTok(t) == t \notin Blanks \cup Punct

RECURSIVE CollapseBlanks(_)
\* re.sub(r'\s+', ' ', s): every run of blanks becomes one space
CollapseBlanks(s) ==
    IF s = <<>> THEN <<>>
    ELSE IF Head(s) \in Blanks
         THEN <<" ">> \o CollapseBlanks(LStrip(s, Blanks))
         ELSE <<Head(s)>> \o CollapseBlanks(Tail(s))

\* index of the first quote token of s, 0 when there is none
FirstQuote(s) ==
    IF \E i \in 1..Len(s) : s[i] = "'"
    THEN CHOOSE i \in 1..Len(s) : s[i] = "'" /\ \A k \in 1..(i - 1) : s[k] # "'"
    ELSE 0

RECURSIVE MaskLiterals(_)
\* re.sub(r"'[^']*'", "'?'", s): a quote up to the next quote becomes '?'
MaskLiterals(s) ==
    IF s = <<>> THEN <<>>
    ELSE IF Head(s) = "'" /\ FirstQuote(Tail(s)) > 0
         THEN <<"'?'">> \o MaskLiterals(SubSeq(Tail(s), FirstQuote(Tail(s)) + 1, Len(Tail(s))))
         ELSE <<Head(s)>> \o MaskLiterals(Tail(s))

RECURSIVE MaskDigits(_)
\* re.sub(r'\d+', '?', s): every run of digits becomes ?
MaskDigits(s) ==
    IF s = <<>> THEN <<>>
    ELSE IF Head(s) \in Digits
         THEN <<"?">> \o MaskDigits(LStrip(s, Digits))
         ELSE <<Head(s)>> \o MaskDigits(Tail(s))

\* The SHA-256 digest is injective on the texts of the model, so the
\* fingerprint is the normalized text itself.
generate_fingerprint(query) ==
    MaskDigits(MaskLiterals(CollapseBlanks(Lower(Strip(query)))))

\* the catalog names add_catalog_unquoted leaves alone
KnownCatalogs == {"iceberg", "hive", "mysql", "postgresql", "mongodb", "system"}

\* a token of letters and underscores
IsLetterTok(t) == t \notin Blanks \cup Punct \cup Digits \cup {Quote}

\* a token of the characters \w matches
IsWordChars(t) == IsLetterTok(t) \/ t \in Digits

IsBlank(t) == t \in Blanks

\* the number of tokens of s, from position i on, before the first one
\* that is not in the class
RunOf(s, i, IsIn(_)) ==
    IF \E j \in i..Len(s) : ~IsIn(s[j])
    THEN (CHOOSE j \in i..Len(s) : ~IsIn(s[j]) /\ \A k \in i..(j - 1) : IsIn(s[k])) - i
    ELSE Max(0, Len(s) - i + 1)

\* [a-zA-Z_][a-zA-Z0-9_]* at position i: its number of tokens, 0 when it
\* does not match
IdentLen(s, i) ==
    IF i <= Len(s) /\ IsLetterTok(s[i]) THEN RunOf(s, i, IsWordChars) ELSE 0

\* "[\w_]+" at position i: its number of tokens, quotes included
QuotedLen(s, i) ==
    IF /\ i + 2 <= Len(s)
       /\ s[i] = Quote
       /\ RunOf(s, i + 1, IsWordChars) >= 1
       /\ i + 1 + RunOf(s, i + 1, IsWordChars) <= Len(s)
       /\ s[i + 1 + RunOf(s, i + 1, IsWordChars)] = Quote
    THEN RunOf(s, i + 1, IsWordChars) + 2
    ELSE 0

NoMatch == [end |-> 0, schema |-> <<>>, table |-> <<>>]

\* The match of quoted_pattern (quoted) or of unquoted_pattern at the
\* keyword s[i]:
\*   \b(from|...join)\s+(schema)\.(table)      and, unquoted, (?!\.)
\* The optional words before join are not part of what is replaced.  When a
\* dot follows the table name the look-ahead fails for the whole name and
\* the pattern backtracks to a shorter table name, which exists when the
\* name has two characters or more; the rest of the name then follows the
\* match, so that in tokens the match still ends with the whole name.
RefMatch(s, i, quoted) ==
    LET blanks == RunOf(s, i + 1, IsBlank)
        p == i + 1 + blanks
        sl == IF quoted THEN QuotedLen(s, p) ELSE IdentLen(s, p)
        q == p + sl + 1
        tl == IF quoted THEN QuotedLen(s, q) ELSE IdentLen(s, q)
        e == q + tl - 1
    IN  IF /\ LowerTok(s[i]) \in {"from", "join"}
           /\ (i = 1 \/ ~IsWordChars(s[i - 1]))
           /\ blanks >= 1
           /\ sl >= 1
           /\ p + sl <= Len(s)
           /\ s[p + sl] = "."
           /\ tl >= 1
           /\ \/ quoted
              \/ e = Len(s)
              \/ s[e + 1] # "."
              \/ tl >= 2
              \/ Len(s[q]) >= 2
        THEN [end |-> e, schema |-> SubSeq(s, p, p + sl - 1), table |-> SubSeq(s, q, e)]
        ELSE NoMatch

\* f"{keyword} iceberg.{schema}.{table}"
add_catalog_quoted(keyword, schema, table, whole) ==
    <<keyword, " ", "iceberg", ".">> \o schema \o <<".">> \o table

\* a replacement that has no list of catalog names
AddCatalogUnquotedAlways(keyword, schema, table, whole) ==
    <<keyword, " ", "iceberg", ".">> \o schema \o <<".">> \o table

\* match.group(0) when the first name is a catalog name
add_catalog_unquoted(keyword, schema, table, whole) ==
    IF Len(schema) = 1 /\ LowerTok(schema[1]) \in KnownCatalogs
    THEN whole
    ELSE <<keyword, " ", "iceberg", ".">> \o schema \o <<".">> \o table

RECURSIVE SubReferences(_, _, _)
\* re.sub(pattern, add_catalog, s) from position i on: the matches are
\* found from left to right and do not overlap
SubReferences(s, i, quoted) ==
    IF i > Len(s) THEN <<>>
    ELSE With(RefMatch(s, i, quoted), LAMBDA m :
         IF m.end = 0
         THEN <<s[i]>> \o SubReferences(s, i + 1, quoted)
         ELSE (IF quoted
               THEN add_catalog_quoted(s[i], m.schema, m.table, SubSeq(s, i, m.end))
               ELSE add_catalog_unquoted(s[i], m.schema, m.table, SubSeq(s, i, m.end)))
                  \o SubReferences(s, m.end + 1, quoted))

\* the quoted pattern is applied first, the unquoted one to its result
_normalize_query_with_catalog(query) ==
    SubReferences(SubReferences(query, 1, TRUE), 1, FALSE)

is_catalog_or_metadata_query(query) ==
    IF query = <<>> \/ Strip(query) = <<>> THEN FALSE
    ELSE LET q == Lower(Strip(query))
         IN  \/ Contains(q, <<"system", ".", "jdbc">>)
             \/ Contains(q, <<"information_schema">>)

\* app.py: query.strip().upper().rstrip(';').strip()
QueryNormalized(query) == Strip(RStrip(Upper(Strip(query)), {";"}))

\* app.py (core): the keep-alive test of trino_statement
IsKeepaliveCore(query) ==
    LET qn == QueryNormalized(query)
    IN  \/ qn \in { <<"SELECT", " ", "1">>,
                    <<"SELECT", " ", "1", " ", "AS", " ", "KEEPALIVE">>,
                    <<"SELECT", " ", "1", " ", "AS", " ", "1">> }
        \/ StartsWith(qn, <<"SELECT", " ", "'", "KEEP", " ", "ALIVE", "'">>)
        \/ StartsWith(qn, <<"SELECT", " ", "'", "KEEPALIVE", "'">>)

\* trino-gateway-proxy/app.py: the keep-alive test of route_statement
IsKeepaliveGateway(query) ==
    QueryNormalized(query) \in { <<"SELECT", " ", "1">>,
                                 <<"SELECT", " ", "1", " ", "AS", " ", "KEEPALIVE">>,
                                 <<"SELECT", " ", "1", " ", "AS", " ", "1">> }

\* upper-case tokens that start with CURRENT_
CurrentToks == {"CURRENT_DATE"}

\* app.py (core): is_metadata_query of trino_statement
IsMetadataQuery(query) ==
    LET qn == QueryNormalized(query)
    IN  \/ StartsWith(qn, <<"SHOW", " ">>)
        \/ StartsWith(qn, <<"DESCRIBE", " ">>)
        \/ StartsWith(qn, <<"DESC", " ">>)
        \/ StartsWith(qn, <<"SELECT", " ", "VERSION", "(", ")">>)
        \/ \E c \in CurrentToks : StartsWith(qn, <<"SELECT", " ", c>>)

AggNames == {"count", "sum", "avg", "min", "max", "group_concat"}

\* lower-case tokens that contain date, data, timestamp, year, month or day
DateToks == {"date", "data", "timestamp", "year", "month", "day", "current_date"}

\* \b before position i and after position i of s
WordBounded(s, i) ==
    /\ (i = 1 \/ ~IsWordTok(s[i - 1]))
    /\ (i = Len(s) \/ ~IsWordTok(s[i + 1]))

\* position i is followed by \s*\(
BlanksThenParen(s, i) ==
    \E j \in (i + 1)..Len(s) :
        /\ s[j] = "("
        /\ \A k \in (i + 1)..(j - 1) : s[k] \in Blanks

\* matches of where.*(date|...) : '.' stops at a newline and '.*' is
\* greedy, so a line holds at most one match; a line is named by the
\* position of its first matching where
PartitionedMatches(s) ==
    {i \in 1..Len(s) :
        /\ s[i] = "where"
        /\ \E j \in (i + 1)..Len(s) :
              /\ s[j] \in DateToks
              /\ \A k \in i..j : s[k] # "\n"
        /\ ~\E h \in 1..(i - 1) :
              /\ s[h] = "where"
              /\ \A k \in h..i : s[k] # "\n"
              /\ \E j \in (h + 1)..Len(s) :
                    s[j] \in DateToks /\ \A k \in h..j : s[k] # "\n"}

analyze_complexity(query) ==
    LET q == Lower(query)
        joins == Cardinality({i \in 1..Len(q) : q[i] = "join" /\ WordBounded(q, i)})
        aggregations ==
            Cardinality({i \in 1..Len(q) :
                /\ q[i] \in AggNames
                /\ (i = 1 \/ ~IsWordTok(q[i - 1]))
                /\ BlanksThenParen(q, i)})
        subqueries ==
            Cardinality({i \in 1..Len(q) :
                /\ q[i] = "("
                /\ i + 2 <= Len(q)
                /\ q[i + 1] = "select"
                /\ q[i + 2] \in Blanks})
        partitioned_filters == Cardinality(PartitionedMatches(q))
        where_clauses == Cardinality({i \in 1..Len(q) : q[i] = "where" /\ WordBounded(q, i)})
    IN  [joins |-> joins,
         aggregations |-> aggregations,
         subqueries |-> subqueries,
         partitioned_filters |-> partitioned_filters,
         non_partitioned_filters |-> Max(0, where_clauses - partitioned_filters)]

(***************************************************************************)
(* query_analyzer.py: the EXPLAIN probe.                                   *)
(*                                                                         *)
(* The default backend is an opaque HTTP server.  What it answers to one   *)
(* EXPLAIN statement is a script: a non-empty sequence of pages, page 1    *)
(* answering the POST and page k+1 answering the GET of the nextUri of     *)
(* page k.  A page carries nextUri exactly when another page follows it.   *)
(*   kind  "fail"    the call raises (timeout, connection, body not JSON)  *)
(*         "non200"  a status other than 200                               *)
(*         "error"   200 with a JSON body that has an "error" member       *)
(*         "ok"      200 with a JSON body without "error"                  *)
(*   msg   the error message (tokens) of an "error" page                   *)
(*   rows  the "data" rows of an "ok" page                                 *)
(*   finished  stats.state = FINISHED                                      *)
(* A row is "empty" ([]), "scalar" (not a list) or a list whose first cell *)
(* is                                                                      *)
(*   "json_object"  a string holding a JSON object; tables are its         *)
(*                  inputTableColumnInfos entries <<name, MiB>>, name ""   *)
(*                  for an entry without catalog/schema/table              *)
(*   "json_array"   a string holding JSON that is not an object            *)
(*   "bad_json"     a string that is not JSON                              *)
(*   "empty_str"    the empty string                                       *)
(*   "not_str"      a value that is not a string                           *)
(*   "plan"         a text plan naming tables (TableScan[table = ...])     *)
(*                  with an "est. rows, size" total of mib MiB             *)
(***************************************************************************)
NoneResult == [tag |-> "none", error |-> <<>>, data |-> <<>>, polled |-> 0]

RECURSIVE PollNextUriPastFinished(_, _, _)
\* the loop without its test of stats.state: it follows nextUri to the end
PollNextUriPastFinished(script, k, all_data) ==
    LET page == script[k]
        data == IF page.kind = "ok" THEN all_data \o page.rows ELSE all_data
    IN  IF page.kind = "fail" THEN [NoneResult EXCEPT !.polled = k - 1]
        ELSE IF page.kind = "non200"
             THEN [tag |-> "data", error |-> <<>>, data |-> all_data, polled |-> k - 1]
        ELSE IF k = Len(script)
             THEN [tag |-> "data", error |-> <<>>, data |-> data, polled |-> k - 1]
        ELSE PollNextUriPastFinished(script, k + 1, data)

RECURSIVE PollNextUri(_, _, _)
\* the while next_uri loop of _execute_trino_query, about to GET page k
PollNextUri(script, k, all_data) ==
    LET page == script[k]
        data == IF page.kind = "ok" THEN all_data \o page.rows ELSE all_data
    IN  IF page.kind = "fail" THEN [NoneResult EXCEPT !.polled = k - 1]
        ELSE IF page.kind = "non200"
             THEN [tag |-> "data", error |-> <<>>, data |-> all_data, polled |-> k - 1]
        ELSE IF page.finished \/ k = Len(script)
             THEN [tag |-> "data", error |-> <<>>, data |-> data, polled |-> k - 1]
        ELSE PollNextUri(script, k + 1, data)

_execute_trino_query(script) ==
    LET first == script[1]
    IN  CASE first.kind = "fail" -> NoneResult
          [] first.kind = "non200" ->
                [tag |-> "error", error |-> <<"HTTP", "503">>, data |-> <<>>, polled |-> 0]
          [] first.kind = "error" ->
                [tag |-> "error", error |-> first.msg, data |-> <<>>, polled |-> 0]
          [] OTHER ->
                IF Len(script) > 1
                THEN PollNextUri(script, 2, first.rows)
                ELSE [tag |-> "data", error |-> <<>>, data |-> first.rows, polled |-> 0]

\* the view_errors list, lower-cased
ViewErrors ==
    { <<"failed", "analyzing", "stored", "view">>, <<"catalog">>, <<"not", "found">>,
      <<"view">>, <<"cannot", "be", "resolved">> }

\* any(err.lower() in error_msg.lower() for err in view_errors)
IsViewError(error_msg) == \E err \in ViewErrors : Contains(Lower(error_msg), err)

\* {'view_error': True, 'tables': {}, 'total_size_bytes': 0, ...}
ViewErrorMarker == [tag |-> "view_error", tables |-> <<>>, source |-> "none"]

NoneProbe == [tag |-> "none", tables |-> <<>>, source |-> "none"]

\* names of the sequence of <<name, MiB>> entries that have a full name
NamedTables(entries) == {entries[i][1] : i \in {j \in 1..Len(entries) : entries[j][1] # ""}}

\* tables_info[full_table_name] = {...}: a later entry of a name replaces
\* an earlier one
TablesInfo(entries) ==
    [n \in NamedTables(entries) |->
        LET last == CHOOSE i \in 1..Len(entries) :
                        /\ entries[i][1] = n
                        /\ \A k \in (i + 1)..Len(entries) : entries[k][1] # n
        IN  entries[last][2]]

_parse_explain_io(entries) ==
    [tag |-> "parsed", tables |-> TablesInfo(entries), source |-> "io"]

\* Each operator of the probe returns
\*   ret     what the Python method returns
\*   raised  TRUE when it raises instead of returning
\*   saved   the number of _save_explain calls it made
\*   sent    the EXPLAIN statements submitted, in order
_try_explain_io(script) ==
    LET out(r, x) == [ret |-> r, raised |-> x, saved |-> IF x THEN 0 ELSE 1, sent |-> <<"IO">>]
    IN  With(_execute_trino_query(script), LAMBDA result :
        IF result.tag = "error" /\ result.error # <<>>
        THEN IF IsViewError(result.error)
             THEN out(ViewErrorMarker, FALSE)
             ELSE out(NoneProbe, FALSE)
        ELSE IF result.tag # "data" \/ result.data = <<>>
        THEN out(NoneProbe, FALSE)
        ELSE LET row == result.data[1]
             IN  CASE row.shape = "empty" -> out(NoneProbe, FALSE)
                   [] row.shape = "scalar" -> out(NoneProbe, TRUE)
                   [] row.cell.type = "empty_str" -> out(NoneProbe, FALSE)
                   [] row.cell.type \in {"not_str", "json_array"} -> out(NoneProbe, TRUE)
                   [] row.cell.type \in {"bad_json", "plan"} -> out(NoneProbe, FALSE)
                   [] OTHER ->
                        IF Len(row.cell.tables) = 0
                        THEN out(NoneProbe, FALSE)
                        ELSE out(_parse_explain_io(row.cell.tables), FALSE))

RECURSIVE PlanEntries(_)
\* the table references _parse_distributed_plan finds in the joined rows
PlanEntries(rows) ==
    IF rows = <<>> THEN <<>>
    ELSE (IF Head(rows).shape = "cell" /\ Head(rows).cell.type = "plan"
          THEN Head(rows).cell.tables
          ELSE <<>>) \o PlanEntries(Tail(rows))

RECURSIVE SumMiB(_)
SumMiB(entries) ==
    IF entries = <<>> THEN 0 ELSE Head(entries)[2] + SumMiB(Tail(entries))

\* per_table_size = total_size_bytes / num_tables for every table found
_parse_distributed_plan(rows) ==
    LET entries == PlanEntries(rows)
        names == NamedTables(entries)
        total == SumMiB(entries)
    IN  [tag |-> "parsed",
         tables |-> [n \in names |-> IF total > 0 THEN total \div Cardinality(names) ELSE 0],
         source |-> "distributed_plan"]

_try_explain_distributed(script) ==
    LET out(r, n) == [ret |-> r, raised |-> FALSE, saved |-> n, sent |-> <<"DISTRIBUTED">>]
    IN  With(_execute_trino_query(script), LAMBDA result :
        IF result.tag = "error" /\ result.error # <<>>
        THEN IF IsViewError(result.error)
             THEN out(ViewErrorMarker, 0)
             ELSE out(NoneProbe, 0)
        ELSE IF result.tag # "data" \/ result.data = <<>>
        THEN out(NoneProbe, 0)
        ELSE IF \E i \in 1..Len(result.data) : result.data[i].shape = "scalar"
        THEN out(NoneProbe, 0)
        ELSE With(_parse_distributed_plan(result.data), LAMBDA tables_info :
                 IF DOMAIN tables_info.tables = {}
                 THEN out(NoneProbe, 1)
                 ELSE out(tables_info, 1)))

\* explain_io(query): io_script and dist_script are what the backend
\* answers to the two EXPLAIN statements
explain_io(io_script, dist_script) ==
    With(_try_explain_io(io_script), LAMBDA io :
        IF io.raised \/ io.ret.tag # "none"
        THEN io
        ELSE With(_try_explain_distributed(dist_script), LAMBDA dist :
                 [ret |-> dist.ret, raised |-> dist.raised,
                  saved |-> io.saved + dist.saved, sent |-> io.sent \o dist.sent]))

\* analyze_query_io(query): the io_analysis the handlers receive; its
\* tables are {} for a failed probe and for a view error
analyze_query_io(io_script, dist_script) ==
    With(explain_io(io_script, dist_script), LAMBDA explain_result :
        [tables |-> IF explain_result.ret.tag = "parsed" THEN explain_result.ret.tables ELSE <<>>,
         fallback_reason |->
            CASE explain_result.ret.tag = "none" -> "explain_failed"
              [] explain_result.ret.tag = "view_error" -> "view_error_catalog_not_found"
              [] OTHER -> "",
         raised |-> explain_result.raised,
         saved |-> explain_result.saved,
         sent |-> explain_result.sent])

(***************************************************************************)
(* Fixed-point arithmetic: a real x is the integer x * Scale.              *)
(***************************************************************************)
Scale == 10000

Clip01(x) == Max(0, Min(Scale, x))

\* ln 2 in Scale units
Ln2 == 6931

\* ln(x / Scale) for Scale <= x < 2 * Scale, by 2 * atanh((x-1)/(x+1))
LnUnit(x) ==
    LET z == ((x - Scale) * Scale) \div (x + Scale)
        z2 == (z * z) \div Scale
        z3 == (z2 * z) \div Scale
        z5 == (z3 * z2) \div Scale
    IN  2 * (z + z3 \div 3 + z5 \div 5)

RECURSIVE LnRatio(_, _)
\* math.log(num / den) in Scale units, for integers num, den >= 1
LnRatio(num, den) ==
    IF den > 16384 THEN LnRatio(num \div 2, den \div 2)
    ELSE IF num >= 2 * den THEN Ln2 + LnRatio(num, 2 * den)
    ELSE IF num < den THEN LnRatio(2 * num, den) - Ln2
    ELSE LnUnit(Scale + ((num - den) * Scale) \div den)

(***************************************************************************)
(* decision_engine.py                                                      *)
(***************************************************************************)
\* the environment defaults of DecisionEngine.__init__
DefaultConfig ==
    [w1 |-> 5000, w2 |-> 3000, w3 |-> 2000,
     ecs_threshold |-> 3000, emr_standard_threshold |-> 7000]

\* sum of the total_size_bytes of the tables of metadata, in MiB
TotalMiB(metadata) ==
    LET names == DOMAIN metadata
        RECURSIVE Sum(_)
        Sum(S) == IF S = {} THEN 0
                  ELSE LET n == CHOOSE x \in S : TRUE
                       IN  metadata[n] + Sum(S \ {n})
    IN  Sum(names)

\* a volume factor that is 0 for an empty probe
VolumeFactorZeroWhenEmpty(metadata) ==
    IF DOMAIN metadata = {} THEN 0 ELSE Clip01(TotalMiB(metadata))

\* metadata maps a table name to its size in MiB; {} is the empty map
_calculate_volume_factor(metadata) ==
    IF DOMAIN metadata = {} THEN Scale \div 2
    ELSE LET mib == TotalMiB(metadata)
             \* estimated_files = max(1, int(total_size_gb * 1024 / 50))
             effective_files == Max(1, mib \div 50)
             \* effective_size_gb < 0.001 is raised to 0.001
             log_size == IF mib * 1000 < 1024 THEN LnRatio(1, 1000) ELSE LnRatio(mib, 1024)
             log_files == LnRatio(effective_files, 1)
             log_max_files == LnRatio(10000, 1)
             log_max_size == LnRatio(1000, 1)
             normalized_files == Min(Scale, (log_files * Scale) \div log_max_files)
             normalized_size == Min(Scale, (log_size * Scale) \div log_max_size)
             \* (nf * 0.3 + ns * 0.7) * (1 - 0.1)
             fv == ((normalized_files * 3 + normalized_size * 7) * 9) \div 100
         IN  Clip01(fv)

\* (J*0.2 + A*0.15 + S*0.25 + PF*0.02 + NF*0.1) / 2.0
_calculate_complexity_factor(complexity) ==
    Clip01((complexity.joins * 2000
            + complexity.aggregations * 1500
            + complexity.subqueries * 2500
            + complexity.partitioned_filters * 200
            + complexity.non_partitioned_filters * 1000) \div 2)

\* _select_cluster with the upper boundary excluded from emr-standard
SelectClusterUpperExcluded(score, cfg) ==
    IF score < cfg.ecs_threshold THEN "ecs"
    ELSE IF score < cfg.emr_standard_threshold THEN "emr-standard"
    ELSE "emr-optimized"

_select_cluster(score, cfg) ==
    IF score < cfg.ecs_threshold THEN "ecs"
    ELSE IF score <= cfg.emr_standard_threshold THEN "emr-standard"
    ELSE "emr-optimized"

\* a decide whose cluster is chosen from the volume factor alone
DecideByVolume(metadata, complexity, fh, cfg) ==
    With(_calculate_volume_factor(metadata), LAMBDA fv :
    With(_calculate_complexity_factor(complexity), LAMBDA fc :
    With((cfg.w1 * fv + cfg.w2 * fc + cfg.w3 * fh) \div Scale, LAMBDA score :
        [cluster |-> _select_cluster(fv, cfg),
         score |-> score,
         factors |-> [volume |-> fv, complexity |-> fc, historical |-> fh]])))

\* decide(): fh is history_manager.get_historical_factor(fingerprint, query)
\* a decision whose score is the mean of the three factors
DecideUnweighted(metadata, complexity, fh, cfg) ==
    With(_calculate_volume_factor(metadata), LAMBDA fv :
    With(_calculate_complexity_factor(complexity), LAMBDA fc :
    With((fv + fc + fh) \div 3, LAMBDA score :
        [cluster |-> _select_cluster(score, cfg),
         score |-> score,
         factors |-> [volume |-> fv, complexity |-> fc, historical |-> fh]])))

decide(metadata, complexity, fh, cfg) ==
    With(_calculate_volume_factor(metadata), LAMBDA fv :
    With(_calculate_complexity_factor(complexity), LAMBDA fc :
    With((cfg.w1 * fv + cfg.w2 * fc + cfg.w3 * fh) \div Scale, LAMBDA score :
        [cluster |-> _select_cluster(score, cfg),
         score |-> score,
         factors |-> [volume |-> fv, complexity |-> fc, historical |-> fh]])))

(***************************************************************************)
(* history_manager.py: the DynamoDB table, keyed by fingerprint.           *)
(* An item holds the decision attributes (cluster, score, factors, ttl)    *)
(* when has_decision and the outcome attributes (execution_time, cost,     *)
(* success) when has_metrics; update_item creates the item when the key    *)
(* is absent, put_item replaces the whole item.  Time is in hours.         *)
(***************************************************************************)
cache_ttl_hours == 24

NoItem == [present |-> FALSE]

NoFactors == [volume |-> 0, complexity |-> 0, historical |-> 0]

\* dict.get(key, default)
DictGet(d, key, default) == IF key \in DOMAIN d THEN d[key] ELSE default

\* the item stored under a key, NoItem when the key is absent
GetItem(tbl, fingerprint) == IF fingerprint \in DOMAIN tbl THEN tbl[fingerprint] ELSE NoItem

PutItem(tbl, fingerprint, item) ==
    [f \in DOMAIN tbl \cup {fingerprint} |-> IF f = fingerprint THEN item ELSE tbl[f]]

\* a lookup that still returns the item at the instant it expires
GetCachedUntilExpiry(tbl, up, fingerprint, current_time) ==
    IF ~up THEN NoItem
    ELSE LET item == GetItem(tbl, fingerprint)
         IN  IF ~item.present THEN NoItem
             ELSE IF DictGet(item, "ttl", 0) >= current_time
                  THEN [present |-> TRUE,
                        cluster |-> DictGet(item, "cluster", "None"),
                        score |-> DictGet(item, "score", 0),
                        factors |-> DictGet(item, "factors", NoFactors)]
                  ELSE NoItem

\* up: self.table is set and the call does not raise
get_cached_decision(tbl, up, fingerprint, current_time) ==
    IF ~up THEN NoItem
    ELSE LET item == GetItem(tbl, fingerprint)
         IN  IF ~item.present THEN NoItem
             ELSE IF DictGet(item, "ttl", 0) > current_time
                  THEN [present |-> TRUE,
                        cluster |-> DictGet(item, "cluster", "None"),
                        score |-> DictGet(item, "score", 0),
                        factors |-> DictGet(item, "factors", NoFactors)]
                  ELSE NoItem

\* a save_decision that updates the decision's attributes of the item and
\* keeps the others
SaveDecisionKeepingOutcome(tbl, up, fingerprint, decision, current_time) ==
    IF ~up THEN tbl
    ELSE LET old == IF fingerprint \in DOMAIN tbl THEN tbl[fingerprint] ELSE [present |-> TRUE]
             new == [cluster |-> decision.cluster,
                     score |-> decision.score,
                     factors |-> decision.factors,
                     ttl |-> current_time + cache_ttl_hours]
         IN  PutItem(tbl, fingerprint,
                 [k \in DOMAIN old \cup DOMAIN new |->
                     IF k \in DOMAIN new THEN new[k] ELSE old[k]])

\* the table after save_decision: put_item replaces the item
save_decision(tbl, up, fingerprint, decision, current_time) ==
    IF ~up THEN tbl
    ELSE PutItem(tbl, fingerprint,
             [present |-> TRUE,
              cluster |-> decision.cluster,
              score |-> decision.score,
              factors |-> decision.factors,
              ttl |-> current_time + cache_ttl_hours])

\* a save_metrics that writes the outcome with put_item
SaveMetricsReplacingItem(tbl, up, metrics_data) ==
    IF ~up THEN tbl
    ELSE PutItem(tbl, metrics_data.fingerprint,
             [present |-> TRUE,
              execution_time |-> DictGet(metrics_data, "execution_time", 0),
              cost |-> DictGet(metrics_data, "cost", 0),
              success |-> DictGet(metrics_data, "success", TRUE)])

\* the table after save_metrics(metrics_data): update_item sets the
\* outcome attributes, keeps the others and creates a missing item
save_metrics(tbl, up, metrics_data) ==
    IF ~up THEN tbl
    ELSE LET fingerprint == metrics_data.fingerprint
             old == IF fingerprint \in DOMAIN tbl THEN tbl[fingerprint] ELSE [present |-> TRUE]
             new == [execution_time |-> DictGet(metrics_data, "execution_time", 0),
                     cost |-> DictGet(metrics_data, "cost", 0),
                     success |-> DictGet(metrics_data, "success", TRUE)]
         IN  PutItem(tbl, fingerprint,
                 [k \in DOMAIN old \cup DOMAIN new |->
                     IF k \in DOMAIN new THEN new[k] ELSE old[k]])

\* a historical factor that returns the stored score of every outcome
HistoricalFactorIgnoringSuccess(tbl, up, fingerprint) ==
    IF ~up THEN Scale \div 2
    ELSE LET item == GetItem(tbl, fingerprint)
         IN  IF ~item.present THEN Scale \div 2
             ELSE DictGet(item, "score", Scale \div 2)

\* a historical factor that reads the table without regard to failures
HistoricalFactorUnguarded(tbl, up, fingerprint) ==
    LET item == GetItem(tbl, fingerprint)
    IN  IF ~item.present THEN Scale \div 2
        ELSE IF DictGet(item, "success", TRUE)
             THEN DictGet(item, "score", Scale \div 2)
             ELSE Scale - DictGet(item, "score", Scale \div 2)

get_historical_factor(tbl, up, fingerprint) ==
    IF ~up THEN Scale \div 2
    ELSE LET item == GetItem(tbl, fingerprint)
         IN  IF ~item.present THEN Scale \div 2
             ELSE LET previous_score == DictGet(item, "score", Scale \div 2)
                      success == DictGet(item, "success", TRUE)
                  IN  IF success THEN previous_score ELSE Scale - previous_score

(***************************************************************************)
(* app.py (core and gateway proxy): clusters, URL rewriting, the tracker   *)
(*                                                                         *)
(* A response body is a sequence of tokens: a base URL (scheme, host and   *)
(* port), a path prefix "/v1/statement/" or "/ui/", the double quote, or   *)
(* any other run of characters without a double quote.                     *)
(***************************************************************************)
Clusters == {"ecs", "emr-standard", "emr-optimized"}

\* dict order of CLUSTER_URLS
ClusterOrder == <<"ecs", "emr-standard", "emr-optimized">>

FALLBACK_CLUSTER == "ecs"

CLUSTER_URLS ==
    [c \in Clusters |->
        CASE c = "ecs" -> "http://trino-ecs:8080"
          [] c = "emr-standard" -> "http://trino-emr-standard:8080"
          [] OTHER -> "http://trino-emr-optimized:8080"]

CLUSTER_EXTERNAL_URLS ==
    [c \in Clusters |->
        CASE c = "ecs" -> "http://localhost:8081"
          [] c = "emr-standard" -> "http://localhost:8082"
          [] OTHER -> "http://localhost:8083"]

\* the URL the proxy-mode rewriter writes: core app.py and gateway app.py
ProxyUrl(svc) == IF svc = "core" THEN "http://localhost:5001" ELSE "http://localhost:8080"

get_cluster_url(cluster_name) ==
    IF cluster_name \in Clusters THEN CLUSTER_URLS[cluster_name] ELSE CLUSTER_URLS["ecs"]

get_cluster_external_url(cluster_name) ==
    IF cluster_name \in Clusters
    THEN CLUSTER_EXTERNAL_URLS[cluster_name]
    ELSE CLUSTER_EXTERNAL_URLS["ecs"]

\* number of tokens of s, from position i on, before the next double quote
RunLength(s, i) ==
    IF \E j \in i..Len(s) : s[j] = Quote
    THEN (CHOOSE j \in i..Len(s) : s[j] = Quote /\ \A k \in i..(j - 1) : s[k] # Quote) - i
    ELSE Len(s) - i + 1

RECURSIVE ReSub(_, _, _, _)
\* re.sub(re.escape(url) + r'(<prefix>[^\"]+)', replacement + r'\1', s):
\* a match is url, prefix and at least one character up to the next double
\* quote; the scan resumes after the match
ReSub(s, url, prefix, replacement) ==
    IF s = <<>> THEN <<>>
    ELSE IF /\ Len(s) >= 3
            /\ s[1] = url
            /\ s[2] = prefix
            /\ s[3] # Quote
         THEN LET n == 2 + RunLength(s, 3)
              IN  <<replacement>> \o SubSeq(s, 2, n) \o ReSub(SubSeq(s, n + 1, Len(s)), url, prefix, replacement)
         ELSE <<Head(s)>> \o ReSub(Tail(s), url, prefix, replacement)

\* a rewriter that leaves the UI links alone
RewriteStatementLinksOnly(content, cluster_name) ==
    ReSub(content, get_cluster_url(cluster_name), "/v1/statement/",
          get_cluster_external_url(cluster_name))

rewrite_urls_for_bypass(content, cluster_name) ==
    LET cluster_url == get_cluster_url(cluster_name)
        external_url == get_cluster_external_url(cluster_name)
    IN  ReSub(ReSub(content, cluster_url, "/v1/statement/", external_url),
              cluster_url, "/ui/", external_url)

RECURSIVE RewriteProxyFrom(_, _, _)
\* the for loop of rewrite_urls_for_proxy, from the k-th cluster on
RewriteProxyFrom(content, k, proxy_url) ==
    IF k > Len(ClusterOrder) THEN content
    ELSE LET cluster_url == CLUSTER_URLS[ClusterOrder[k]]
         IN  RewriteProxyFrom(
                 ReSub(ReSub(content, cluster_url, "/v1/statement/", proxy_url),
                       cluster_url, "/ui/", proxy_url),
                 k + 1, proxy_url)

rewrite_urls_for_proxy(content, proxy_url) == RewriteProxyFrom(content, 1, proxy_url)

\* if BYPASS_MODE: ... else: ...
RewriteForMode(content, cluster_name, bypass, svc) ==
    IF bypass
    THEN rewrite_urls_for_bypass(content, cluster_name)
    ELSE rewrite_urls_for_proxy(content, ProxyUrl(svc))

(***************************************************************************)
(* The query-id tracker query_cluster_map is a function from the ids       *)
(* recorded so far to cluster names.  A backend reply to a submission is   *)
(* a record; json says what json.loads makes of the body ("object",        *)
(* "array" for JSON that is not an object, "invalid"), id is the "id"      *)
(* member of an object, "" when it is absent or empty.                     *)
(***************************************************************************)
\* a handler that answers without writing the tracker
ExtractWithoutWrite(map, reply, cluster_name) == map

\* an extract that records the id member also when it is empty
ExtractRecordsEmptyId(map, reply, cluster_name) ==
    IF reply.json = "object"
    THEN [q \in DOMAIN map \cup {reply.id} |-> IF q = reply.id THEN cluster_name ELSE map[q]]
    ELSE map

\* the map after extract_query_id_and_map_cluster; json "array" raises
\* AttributeError, which the function does not catch
extract_query_id_and_map_cluster(map, reply, cluster_name) ==
    IF reply.json = "object" /\ reply.id # ""
    THEN [q \in DOMAIN map \cup {reply.id} |-> IF q = reply.id THEN cluster_name ELSE map[q]]
    ELSE map

ExtractRaises(reply) == reply.json = "array"

\* query ids that match \d{8}_\d{6}_\d{5}_[^/]+
ShapedIds == {"20240101_000000_00001_abcde", "20240101_000000_00002_abcde"}

\* A path is the sequence of its segments (the text between slashes); the
\* path parameter has no leading slash.  The positions re.search finds for
\* /(\d{8}_\d{6}_\d{5}_[^/]+)/ : a whole segment with a slash on each side
QueryIdMatches(path) == {i \in 2..(Len(path) - 1) : path[i] \in ShapedIds}

\* which branch get_cluster_for_path takes: "resolved", "unknown", "nomatch"
PathBranch(map, path) ==
    IF QueryIdMatches(path) = {} THEN "nomatch"
    ELSE LET first == CHOOSE i \in QueryIdMatches(path) : \A k \in QueryIdMatches(path) : i <= k
         IN  IF path[first] \in DOMAIN map THEN "resolved" ELSE "unknown"

\* a resolver that also takes an id in the first or in the last segment
GetClusterForAnySegment(map, path) ==
    IF \E i \in 1..Len(path) : path[i] \in ShapedIds /\ path[i] \in DOMAIN map
    THEN map[path[CHOOSE i \in 1..Len(path) : path[i] \in ShapedIds /\ path[i] \in DOMAIN map]]
    ELSE "ecs"

get_cluster_for_path(map, path) ==
    IF PathBranch(map, path) = "resolved"
    THEN LET first == CHOOSE i \in QueryIdMatches(path) : \A k \in QueryIdMatches(path) : i <= k
         IN  map[path[first]]
    ELSE "ecs"

(***************************************************************************)
(* app.py (core): the decision part of the handlers.  io_script and        *)
(* dist_script are the backend's answers to the probe's two EXPLAIN        *)
(* statements, should the handler issue them.                              *)
(*   status  0 when the handler goes on to forward, else the HTTP status   *)
(*   reason  the branch taken                                              *)
(*   sent    the EXPLAIN statements submitted                              *)
(*   tbl     the DynamoDB table afterwards                                 *)
(***************************************************************************)
CatalogDecision == [cluster |-> "ecs", score |-> 0, factors |-> NoFactors]

NoDecision == [cluster |-> "", score |-> 0, factors |-> NoFactors]

\* the else branch of trino_statement and the tail of route_query:
\* analyze_query_io, analyze_complexity, decide, save_decision
\* a computation that gives every statement the neutral historical factor
ComputeDecisionNeutralHistory(query, fingerprint, tbl, up, current_time, io_script, dist_script, cfg) ==
    With(analyze_query_io(io_script, dist_script), LAMBDA io_analysis :
    With(IF io_analysis.raised THEN NoDecision
         ELSE decide(io_analysis.tables, analyze_complexity(query), Scale \div 2, cfg),
         LAMBDA decision :
        IF io_analysis.raised
        THEN [status |-> 500, reason |-> "exception", decision |-> NoDecision, tbl |-> tbl,
              sent |-> io_analysis.sent, saved |-> io_analysis.saved,
              fallback_reason |-> ""]
        ELSE [status |-> 0, reason |-> "computed", decision |-> decision,
              tbl |-> save_decision(tbl, up, fingerprint, decision, current_time),
              sent |-> io_analysis.sent, saved |-> io_analysis.saved,
              fallback_reason |-> io_analysis.fallback_reason]))

ComputeDecision(query, fingerprint, tbl, up, current_time, io_script, dist_script, cfg) ==
    With(analyze_query_io(io_script, dist_script), LAMBDA io_analysis :
    \* metadata = {} unless io_analysis.get('tables')
    With(IF io_analysis.raised THEN NoDecision
         ELSE decide(io_analysis.tables, analyze_complexity(query),
                     get_historical_factor(tbl, up, fingerprint), cfg), LAMBDA decision :
        IF io_analysis.raised
        THEN [status |-> 500, reason |-> "exception", decision |-> NoDecision, tbl |-> tbl,
              sent |-> io_analysis.sent, saved |-> io_analysis.saved,
              fallback_reason |-> ""]
        ELSE [status |-> 0, reason |-> "computed", decision |-> decision,
              tbl |-> save_decision(tbl, up, fingerprint, decision, current_time),
              sent |-> io_analysis.sent, saved |-> io_analysis.saved,
              fallback_reason |-> io_analysis.fallback_reason]))

\* a POST /v1/statement that does not consult the cache
StatementDecisionUncached(query, tbl, up, current_time, io_script, dist_script, cfg) ==
    IF query = <<>> \/ Strip(query) = <<>>
    THEN [status |-> 400, reason |-> "empty", decision |-> NoDecision, tbl |-> tbl,
          sent |-> <<>>, saved |-> 0]
    ELSE IF IsKeepaliveCore(query)
    THEN [status |-> 0, reason |-> "keepalive", decision |-> CatalogDecision, tbl |-> tbl,
          sent |-> <<>>, saved |-> 0]
    ELSE With(generate_fingerprint(query), LAMBDA fingerprint :
             IF IsMetadataQuery(query) \/ is_catalog_or_metadata_query(query)
             THEN [status |-> 0, reason |-> "metadata", decision |-> CatalogDecision,
                   tbl |-> save_decision(tbl, up, fingerprint, CatalogDecision, current_time),
                   sent |-> <<>>, saved |-> 0]
             ELSE ComputeDecision(query, fingerprint, tbl, up, current_time,
                                  io_script, dist_script, cfg))

\* POST /v1/statement up to the forwarding of the statement
trino_statement_decision(query, tbl, up, current_time, io_script, dist_script, cfg) ==
    IF query = <<>> \/ Strip(query) = <<>>
    THEN [status |-> 400, reason |-> "empty", decision |-> NoDecision, tbl |-> tbl,
          sent |-> <<>>, saved |-> 0]
    ELSE IF IsKeepaliveCore(query)
    THEN [status |-> 0, reason |-> "keepalive", decision |-> CatalogDecision, tbl |-> tbl,
          sent |-> <<>>, saved |-> 0]
    ELSE With(generate_fingerprint(query), LAMBDA fingerprint :
         With(get_cached_decision(tbl, up, fingerprint, current_time), LAMBDA cached_decision :
             IF cached_decision.present
             THEN [status |-> 0, reason |-> "cached",
                   decision |-> [cluster |-> cached_decision.cluster,
                                 score |-> cached_decision.score,
                                 factors |-> cached_decision.factors],
                   tbl |-> tbl, sent |-> <<>>, saved |-> 0]
             ELSE IF IsMetadataQuery(query) \/ is_catalog_or_metadata_query(query)
             THEN [status |-> 0, reason |-> "metadata", decision |-> CatalogDecision,
                   tbl |-> save_decision(tbl, up, fingerprint, CatalogDecision, current_time),
                   sent |-> <<>>, saved |-> 0]
             ELSE ComputeDecision(query, fingerprint, tbl, up, current_time,
                                  io_script, dist_script, cfg)))

\* POST /api/v1/route; status 200 stands for status 0 of the result
route_query(query, tbl, up, current_time, io_script, dist_script, cfg) ==
    With(generate_fingerprint(query), LAMBDA fingerprint :
    With(get_cached_decision(tbl, up, fingerprint, current_time), LAMBDA cached_decision :
        IF cached_decision.present
        THEN [status |-> 0, reason |-> "cached",
              decision |-> [cluster |-> cached_decision.cluster,
                            score |-> cached_decision.score,
                            factors |-> cached_decision.factors],
              tbl |-> tbl, sent |-> <<>>, saved |-> 0]
        ELSE IF is_catalog_or_metadata_query(query)
        THEN [status |-> 0, reason |-> "metadata", decision |-> CatalogDecision,
              tbl |-> save_decision(tbl, up, fingerprint, CatalogDecision, current_time),
              sent |-> <<>>, saved |-> 0]
        ELSE ComputeDecision(query, fingerprint, tbl, up, current_time,
                             io_script, dist_script, cfg)))

(***************************************************************************)
(* The state of one service process, its DynamoDB table and its clients.   *)
(***************************************************************************)
VARIABLES
    statements,         \* the statement texts handed to the analyzer's text
                        \* functions
    analyzed,           \* what the text functions returned for each of them
    decision_engine,    \* the weights and thresholds DecisionEngine read at
                        \* startup
    explain_backend,    \* what the default backend answers to the probe's
                        \* two EXPLAIN statements: [io, dist], each a script
    service,            \* the process modelled: "core" or "gateway"
    BYPASS_MODE,        \* the BYPASS_MODE setting, fixed at startup
    query_cluster_map,  \* the tracker: query id -> cluster name
    table,              \* the DynamoDB table: fingerprint -> item
    dynamo_up,          \* the table is reachable
    now,                \* time.time(), in hours
    h,                  \* the request handlers in flight, by slot
    last,               \* the request completed last and its response
    returned            \* <<id, cluster>> of the submission responses returned

vars == <<statements, analyzed, decision_engine, explain_backend, service, BYPASS_MODE, query_cluster_map, table, dynamo_up, now, h, last, returned>>

STREAMING_THRESHOLD == 65536

Idle == [pc |-> "idle"]

\* the cluster whose URL a cluster name resolves to
TargetOf(cluster_name) == IF cluster_name \in Clusters THEN cluster_name ELSE FALLBACK_CLUSTER

RECURSIVE Concat(_)
\* content += chunk for every chunk
Concat(chunks) == IF chunks = <<>> THEN <<>> ELSE Head(chunks) \o Concat(Tail(chunks))

\* a proxy that forwards the text the probe explains
ForwardNormalized(query) == _normalize_query_with_catalog(query)

\* content=query of client.post: the body forwarded to the chosen backend
ForwardedContent(query) == query

\* f"EXPLAIN (TYPE IO) {normalized_query}" and
\* f"EXPLAIN (TYPE DISTRIBUTED) {normalized_query}", for the EXPLAIN
\* statements sent, with normalized_query of explain_io
ExplainQueries(query, sent) ==
    [k \in 1..Len(sent) |->
        <<"EXPLAIN", " ", "(", "TYPE", " ", sent[k], ")", " ">>
            \o _normalize_query_with_catalog(query)]

\* the record of a completed POST /v1/statement or POST /api/v1/route
DecisionLast(kind, query, d, io_script, dist_script) ==
    [kind |-> kind, query |-> query, status |-> d.status, reason |-> d.reason,
     forwarded |-> FALSE, cluster |-> d.decision.cluster, decision |-> d.decision,
     sent |-> d.sent, saved |-> d.saved,
     fallback_reason |-> DictGet(d, "fallback_reason", ""),
     io_script |-> io_script, dist_script |-> dist_script,
     explain_queries |-> ExplainQueries(query, d.sent),
     content |-> <<>>, reply |-> "none",
     backend_body |-> <<>>, body |-> <<>>, id |-> ""]

(***************************************************************************)
(* POST /v1/statement of the core (trino_statement).  The handler runs     *)
(* without suspension up to "await client.post" (StatementStart), is       *)
(* resumed by the backend's reply and runs to its return (StatementFinish) *)
(***************************************************************************)
StatementStart(i, query, io_script, dist_script) ==
    /\ service = "core"
    /\ h[i].pc = "idle"
    /\ \E d \in {trino_statement_decision(query, table, dynamo_up, now,
                                          io_script, dist_script, decision_engine)} :
           /\ table' = d.tbl
           /\ IF d.status = 0
              THEN /\ h' = [h EXCEPT ![i] =
                              [pc |-> "stmt_wait",
                               info |-> [DecisionLast("statement", query, d, io_script, dist_script)
                                            EXCEPT !.forwarded = TRUE,
                                                   !.content = ForwardedContent(query)]]]
                   /\ last' = last
              ELSE /\ h' = h
                   /\ last' = DecisionLast("statement", query, d, io_script, dist_script)
    /\ UNCHANGED <<statements, analyzed, decision_engine, explain_backend, service, BYPASS_MODE, query_cluster_map, dynamo_up, now, returned>>

\* a proxy whose handlers answer a timeout like any other exception
ReplyStatusTimeoutAsError(reply, raises) ==
    CASE reply.kind \in {"timeout", "error"} -> 500
      [] raises -> 500
      [] OTHER -> reply.status

\* the status of the response to a forwarded request: TimeoutException
\* gives 504, any other exception 500, else the backend's status
ReplyStatus(reply, raises) ==
    CASE reply.kind = "timeout" -> 504
      [] reply.kind = "error" -> 500
      [] raises -> 500
      [] OTHER -> reply.status

\* shared by trino_statement (core) and route_statement (gateway)
StatementFinish(i, reply) ==
    /\ h[i].pc = "stmt_wait"
    /\ LET info == h[i].info
           cluster_name == info.cluster
           ok == reply.kind = "resp" /\ ~ExtractRaises(reply)
       IN  /\ query_cluster_map' =
                 IF ok
                 THEN extract_query_id_and_map_cluster(query_cluster_map, reply, cluster_name)
                 ELSE query_cluster_map
           /\ returned' =
                 IF ok /\ reply.json = "object" /\ reply.id # ""
                 THEN returned \cup {<<reply.id, cluster_name>>}
                 ELSE returned
           /\ last' = [info EXCEPT
                          !.status = ReplyStatus(reply, ExtractRaises(reply)),
                          !.reply = reply.kind,
                          !.backend_body = IF reply.kind = "resp" THEN reply.body ELSE <<>>,
                          !.body = IF ok
                                   THEN RewriteForMode(reply.body, cluster_name, BYPASS_MODE, service)
                                   ELSE <<>>,
                          !.id = IF ok /\ reply.json = "object" THEN reply.id ELSE ""]
    /\ h' = [h EXCEPT ![i] = Idle]
    /\ UNCHANGED <<statements, analyzed, decision_engine, explain_backend, service, BYPASS_MODE, table, dynamo_up, now>>

(***************************************************************************)
(* POST /v1/statement of the gateway proxy (route_statement): it awaits    *)
(* get_routing_decision (GwRouted) and then the backend (StatementFinish). *)
(***************************************************************************)
GwInfo(query, status, reason, cluster_name, forwarded) ==
    [kind |-> "statement", query |-> query, status |-> status, reason |-> reason,
     forwarded |-> forwarded, cluster |-> cluster_name,
     decision |-> [NoDecision EXCEPT !.cluster = cluster_name],
     sent |-> <<>>, saved |-> 0, fallback_reason |-> "",
     io_script |-> <<>>, dist_script |-> <<>>, explain_queries |-> <<>>,
     content |-> IF forwarded THEN ForwardedContent(query) ELSE <<>>, reply |-> "none",
     backend_body |-> <<>>, body |-> <<>>, id |-> ""]

GwStatementStart(i, query) ==
    /\ service = "gateway"
    /\ h[i].pc = "idle"
    /\ IF query = <<>> \/ Strip(query) = <<>>
       THEN \* HTTPException(400) is raised inside the try and caught by
            \* "except Exception", which answers 500
            /\ last' = GwInfo(query, 500, "empty", "", FALSE)
            /\ h' = h
       ELSE IF IsKeepaliveGateway(query)
       THEN /\ h' = [h EXCEPT ![i] =
                       [pc |-> "stmt_wait",
                        info |-> GwInfo(query, 0, "keepalive", FALLBACK_CLUSTER, TRUE)]]
            /\ last' = last
       ELSE /\ h' = [h EXCEPT ![i] = [pc |-> "route_wait", query |-> query]]
            /\ last' = last
    /\ UNCHANGED <<statements, analyzed, decision_engine, explain_backend, service, BYPASS_MODE, query_cluster_map, table, dynamo_up, now, returned>>

\* a get_routing_decision that takes the cluster name of an answer of any
\* status
RoutingDecisionOfAnyStatus(core_reply) == DictGet(core_reply, "cluster", "")

\* get_routing_decision: the cluster name of a 200 answer, None ("") on
\* a timeout, an error or another status
get_routing_decision(core_reply) ==
    IF core_reply.kind = "ok" THEN core_reply.cluster ELSE ""

GwRouted(i, core_reply) ==
    /\ h[i].pc = "route_wait"
    /\ LET decided == get_routing_decision(core_reply)
           cluster_name == IF decided = "" \/ decided \notin Clusters
                           THEN FALLBACK_CLUSTER
                           ELSE decided
       IN  h' = [h EXCEPT ![i] =
                    [pc |-> "stmt_wait",
                     info |-> GwInfo(h[i].query, 0,
                                     IF decided = cluster_name THEN "routed" ELSE "fallback",
                                     cluster_name, TRUE)]]
    /\ UNCHANGED <<statements, analyzed, decision_engine, explain_backend, service, BYPASS_MODE, query_cluster_map, table, dynamo_up, now, last, returned>>

(***************************************************************************)
(* POST /api/v1/route and POST /api/v1/metrics of the core: no suspension  *)
(***************************************************************************)
RouteQuery(query, io_script, dist_script) ==
    /\ service = "core"
    /\ \E d \in {route_query(query, table, dynamo_up, now, io_script, dist_script,
                             decision_engine)} :
           /\ table' = d.tbl
           /\ last' = [DecisionLast("route", query, d, io_script, dist_script)
                          EXCEPT !.status = IF d.status = 0 THEN 200 ELSE d.status]
    /\ UNCHANGED <<statements, analyzed, decision_engine, explain_backend, service, BYPASS_MODE, query_cluster_map, dynamo_up, now, h, returned>>

\* metrics is the "metrics" member of the request body
SaveMetrics(fingerprint, metrics) ==
    /\ service = "core"
    /\ LET data == [fingerprint |-> fingerprint, metrics |-> metrics]
       IN  table' = save_metrics(table, dynamo_up, data)
    /\ last' = [kind |-> "metrics", fingerprint |-> fingerprint, metrics |-> metrics,
                status |-> 200, before |-> GetItem(table, fingerprint),
                after |-> GetItem(table', fingerprint), store_up |-> dynamo_up]
    /\ UNCHANGED <<statements, analyzed, decision_engine, explain_backend, service, BYPASS_MODE, query_cluster_map, dynamo_up, now, h, returned>>

(***************************************************************************)
(* The catch-all route (proxy_other).  A backend reply to a follow-up has  *)
(*   is_json         'application/json' in Content-Type                    *)
(*   content_length  the Content-Length header, -1 when it is absent       *)
(*   chunks          the body, in the chunks the backend sends             *)
(***************************************************************************)
\* segments that end with .html, .css, .js or .ico
AssetSegments == {"query.html"}

\* is_ui_request of the gateway proxy
IsUiRequest(path) ==
    \/ path = <<>>
    \/ (Len(path) >= 2 /\ path[1] \in {"ui", "assets", "vendor"})
    \/ (path # <<>> /\ path[Len(path)] \in AssetSegments)

\* the submissions returned so far whose id is a segment of the path
KnownFor(path) == {p \in returned : p[1] \in Range(path)}

\* the handler record once the target cluster is resolved
Resolved(method, path, known) ==
    [pc |-> "fu_wait", method |-> method, path |-> path, known |-> known,
     cluster |-> get_cluster_for_path(query_cluster_map, path),
     branch |-> PathBranch(query_cluster_map, path)]

ProxyStart(i, method, path) ==
    /\ h[i].pc = "idle"
    /\ IF service = "gateway" /\ IsUiRequest(path) /\ method = "GET"
       THEN h' = [h EXCEPT ![i] =
                     [pc |-> "ui_wait", method |-> method, path |-> path,
                      known |-> KnownFor(path)]]
       ELSE h' = [h EXCEPT ![i] = Resolved(method, path, KnownFor(path))]
    /\ UNCHANGED <<statements, analyzed, decision_engine, explain_backend, service, BYPASS_MODE, query_cluster_map, table, dynamo_up, now, last, returned>>

\* the record of a completed catch-all request
FollowLast(r, target, status, reply, body, streamed, relayed, closed_at) ==
    [kind |-> "followup", method |-> r.method, path |-> r.path, known |-> r.known,
     target |-> target, cluster |-> IF target = "cluster" THEN r.cluster ELSE "",
     branch |-> IF target = "cluster" THEN r.branch ELSE "",
     status |-> status, reply |-> reply.kind,
     is_json |-> reply.kind = "resp" /\ reply.is_json,
     content_length |-> IF reply.kind = "resp" THEN reply.content_length ELSE -1,
     backend_chunks |-> IF reply.kind = "resp" THEN reply.chunks ELSE <<>>,
     body |-> body, streamed |-> streamed, relayed |-> relayed, closed_at |-> closed_at]

\* the gateway proxy asks TRINO_GATEWAY_URL for a UI path first; when that
\* call raises it goes on to the cluster
ProxyUiReply(i, reply) ==
    /\ h[i].pc = "ui_wait"
    /\ IF reply.kind = "resp"
       THEN /\ last' = FollowLast(h[i], "ui-gateway", reply.status, reply,
                                  Concat(reply.chunks), FALSE, <<>>, 0)
            /\ h' = [h EXCEPT ![i] = Idle]
       ELSE /\ last' = last
            /\ h' = [h EXCEPT ![i] = Resolved(h[i].method, h[i].path, h[i].known)]
    /\ UNCHANGED <<statements, analyzed, decision_engine, explain_backend, service, BYPASS_MODE, query_cluster_map, table, dynamo_up, now, returned>>

\* GET: buffer and rewrite when the body is JSON with a Content-Length
\* below the threshold
Buffered(method, reply) ==
    \/ method # "GET"
    \/ /\ reply.is_json
       /\ reply.content_length # -1
       /\ reply.content_length < STREAMING_THRESHOLD

\* a proxy that, after a timeout or an error, sends the request again, to
\* the fallback cluster
ProxyReplyResending(i, reply) ==
    /\ h[i].pc = "fu_wait"
    /\ IF reply.kind # "resp"
       THEN /\ last' = last
            /\ h' = [h EXCEPT ![i].cluster = FALLBACK_CLUSTER, ![i].branch = "resend"]
       ELSE /\ last' = FollowLast(h[i], "cluster", reply.status, reply,
                                  RewriteForMode(Concat(reply.chunks), h[i].cluster,
                                                 BYPASS_MODE, service),
                                  FALSE, <<>>, 0)
            /\ h' = [h EXCEPT ![i] = Idle]
    /\ UNCHANGED <<statements, analyzed, decision_engine, explain_backend, service, BYPASS_MODE, query_cluster_map, table, dynamo_up, now, returned>>

\* The backend's response head arrives.  A buffered response is read,
\* rewritten and returned.  Otherwise the handler returns a
\* StreamingResponse from inside "async with client.stream(...)": the
\* return leaves both context managers, which closes the upstream response
\* before the framework starts to iterate stream_response.
ProxyReply(i, reply) ==
    /\ h[i].pc = "fu_wait"
    /\ IF reply.kind # "resp"
       THEN /\ last' = FollowLast(h[i], "cluster", ReplyStatus(reply, FALSE), reply,
                                  <<>>, FALSE, <<>>, 0)
            /\ h' = [h EXCEPT ![i] = Idle]
       ELSE IF Buffered(h[i].method, reply)
       THEN /\ last' = FollowLast(h[i], "cluster", reply.status, reply,
                                  RewriteForMode(Concat(reply.chunks), h[i].cluster,
                                                 BYPASS_MODE, service),
                                  FALSE, <<>>, 0)
            /\ h' = [h EXCEPT ![i] = Idle]
       ELSE /\ last' = last
            /\ h' = [h EXCEPT ![i] =
                        [pc |-> "streaming", req |-> h[i], reply |-> reply,
                         upstream_open |-> FALSE, closed_at |-> 0,
                         pending |-> reply.chunks, relayed |-> <<>>]]
    /\ UNCHANGED <<statements, analyzed, decision_engine, explain_backend, service, BYPASS_MODE, query_cluster_map, table, dynamo_up, now, returned>>

\* The framework iterates stream_response (response.aiter_bytes): on a
\* closed response it raises StreamClosed and the body ends; on an open one
\* it yields the next chunk, and the response is closed after the last.
StreamRelay(i) ==
    /\ h[i].pc = "streaming"
    /\ IF h[i].upstream_open /\ h[i].pending # <<>>
       THEN /\ h' = [h EXCEPT ![i].relayed = Append(@, Head(h[i].pending)),
                              ![i].pending = Tail(@)]
            /\ last' = last
       ELSE /\ h' = [h EXCEPT ![i] = Idle]
            /\ last' = FollowLast(h[i].req, "cluster", h[i].reply.status, h[i].reply,
                                  Concat(h[i].relayed), TRUE, h[i].relayed,
                                  IF h[i].upstream_open THEN Len(h[i].relayed)
                                  ELSE h[i].closed_at)
    /\ UNCHANGED <<statements, analyzed, decision_engine, explain_backend, service, BYPASS_MODE, query_cluster_map, table, dynamo_up, now, returned>>

(***************************************************************************)
(* The environment: time passes, DynamoDB deletes expired items and        *)
(* becomes unreachable or reachable again.                                 *)
(***************************************************************************)
MaxTicks == 2

TickHours == 12

Tick ==
    /\ now < MaxTicks * TickHours
    /\ now' = now + TickHours
    /\ UNCHANGED <<statements, analyzed, decision_engine, explain_backend, service, BYPASS_MODE, query_cluster_map, table, dynamo_up, h, last, returned>>

\* the TTL attribute: an item whose ttl has passed may be deleted
StoreExpire(fingerprint) ==
    /\ fingerprint \in DOMAIN table
    /\ "ttl" \in DOMAIN table[fingerprint]
    /\ table[fingerprint].ttl <= now
    /\ table' = [f \in DOMAIN table \ {fingerprint} |-> table[f]]
    /\ UNCHANGED <<statements, analyzed, decision_engine, explain_backend, service, BYPASS_MODE, query_cluster_map, dynamo_up, now, h, last, returned>>

StoreFlip ==
    /\ dynamo_up' = ~dynamo_up
    /\ UNCHANGED <<statements, analyzed, decision_engine, explain_backend, service, BYPASS_MODE, query_cluster_map, table, now, h, last, returned>>

(***************************************************************************)
(* Inputs: statements, backend scripts for the probe, backend replies      *)
(***************************************************************************)
S_EMPTY == <<>>

S_BLANK == <<" ", "\n">>

S_KEEPALIVE == <<"SELECT", " ", "1", ";">>

\* a keep-alive of the literal form
S_KEEPALIVE_LITERAL == <<"select", " ", "'", "keepalive", "'">>

S_SHOW == <<"show", " ", "tables">>

S_PLAIN ==
    <<"select", " ", "a", " ", "from", " ", "s", ".", "t", " ",
      "where", " ", "b", "=", "'", "x", "'">>

\* S_PLAIN with another string literal: the same fingerprint
S_CATALOG_LITERAL ==
    <<"select", " ", "a", " ", "from", " ", "s", ".", "t", " ",
      "where", " ", "b", "=", "'", "information_schema", "'">>

FailPage == [kind |-> "fail", msg |-> <<>>, rows |-> <<>>, finished |-> FALSE]

Non200Page == [kind |-> "non200", msg |-> <<>>, rows |-> <<>>, finished |-> FALSE]

ErrPage(msg) == [kind |-> "error", msg |-> msg, rows |-> <<>>, finished |-> FALSE]

OkPage(rows, finished) == [kind |-> "ok", msg |-> <<>>, rows |-> rows, finished |-> finished]

Cell(type, tables) == [shape |-> "cell", cell |-> [type |-> type, tables |-> tables]]

MSG_CATALOG == <<"Catalog", "'iceberg'", "not", "found">>

MSG_SYNTAX == <<"mismatched", "input">>

\* table sizes in MiB: 5 GiB and 2000 GiB
SmallMiB == 5120

LargeMiB == 2048000

\* the probe fails at once: the caller decides on complexity alone
SC_FAIL == <<FailPage>>

\* EXPLAIN (TYPE IO) of one table, delivered on the second page
SC_TABLE(mib) == <<OkPage(<<>>, FALSE), OkPage(<<Cell("json_object", << <<"iceberg.s.t", mib>> >>)>>, TRUE)>>

\* a minimal statement-protocol reply of a backend
Resp(status, json, id, body) ==
    [kind |-> "resp", status |-> status, json |-> json, id |-> id, body |-> body]

TimeoutReply == [kind |-> "timeout"]

ErrorReply == [kind |-> "error"]

\* a query id that does not have the shape of ShapedIds
OddId == "q-17"

Id1 == "20240101_000000_00001_abcde"

\* "nextUri":"<url>/v1/statement/queued/<id>/1" and
\* "infoUri":"<url>/ui/query.html?<id>" as tokens
NextUriField(url) == <<Quote, url, "/v1/statement/", "queued/1", Quote>>

InfoUriField(url) == <<Quote, url, "/ui/", "query.html?id", Quote>>

\* a follow-up reply
FollowResp(status, is_json, content_length, chunks) ==
    [kind |-> "resp", status |-> status, is_json |-> is_json,
     content_length |-> content_length, chunks |-> chunks]

(***************************************************************************)
(* Spec: one service process (core or gateway proxy) with concurrent       *)
(* submissions and follow-ups; the submissions' answers carry query ids.   *)
(***************************************************************************)
\* both EXPLAIN statements fail at once
FailingBackend == [io |-> SC_FAIL, dist |-> SC_FAIL]

MaxHandlers == 2

Slots == 1..MaxHandlers

NoLast == [kind |-> "none"]

InitCommon ==
    /\ statements = <<>>
    /\ analyzed = <<>>
    /\ decision_engine = DefaultConfig
    /\ query_cluster_map = <<>>
    /\ table = <<>>
    /\ now = 0
    /\ h = [i \in Slots |-> Idle]
    /\ last = NoLast
    /\ returned = {}

\* the history store is not reachable here: every decision is computed
Init ==
    /\ InitCommon
    /\ service \in {"core", "gateway"}
    /\ BYPASS_MODE = TRUE
    /\ dynamo_up = FALSE
    /\ explain_backend = FailingBackend

SpecQueries == {S_EMPTY, S_BLANK, S_PLAIN}

SpecIds == {Id1, OddId}

\* a timeout, a JSON body that is not an object, an object without an id
\* and objects with an id
SpecStatementReplies ==
    {TimeoutReply, Resp(200, "array", "", <<>>)}
        \cup {Resp(200, "object", id, <<>>) : id \in SpecIds \cup {""}}

\* DELETE /v1/query/<id> ends with the id; a nextUri has the id inside;
\* the UI asks for /ui/api/query/<id>
SpecRequests ==
    UNION {{ <<"GET", <<"v1", "statement", "executing", id, "1">> >>,
             <<"DELETE", <<"v1", "query", id>> >> } : id \in SpecIds}
        \cup { <<"GET", <<"ui", "api", "query", Id1>> >> }

SpecCoreReplies == {[kind |-> "ok", cluster |-> "emr-standard"]}

SpecFollowReplies == {TimeoutReply, FollowResp(200, TRUE, 2, << <<"{}">> >>)}

Next ==
    \/ \E i \in Slots, q \in SpecQueries : StatementStart(i, q, explain_backend.io, explain_backend.dist)
    \/ \E i \in Slots, q \in SpecQueries : GwStatementStart(i, q)
    \/ \E i \in Slots, r \in SpecCoreReplies : GwRouted(i, r)
    \/ \E i \in Slots, r \in SpecStatementReplies : StatementFinish(i, r)
    \/ \E i \in Slots, m \in SpecRequests : ProxyStart(i, m[1], m[2])
    \/ \E i \in Slots, r \in SpecFollowReplies : ProxyUiReply(i, r)
    \/ \E i \in Slots, r \in SpecFollowReplies : ProxyReply(i, r)

Spec == Init /\ [][Next]_vars

(***************************************************************************)
(* Claims about the tracker and the request validation (Spec)              *)
(***************************************************************************)
\* the handlers waiting for a backend's answer to a catch-all request
FollowUpsInFlight == {i \in Slots : h[i].pc = "fu_wait"}

\* C1: a catch-all request whose path contains the id X of a submission
\* that was answered from cluster C is forwarded to C, whatever the place
\* of X in the path and whatever the id string
C1_FollowUpReachesSubmissionCluster ==
    \A i \in FollowUpsInFlight : \A p \in h[i].known : h[i].cluster = p[2]

\* C2: the pair (id, cluster) is in the tracker when the submission's
\* response is returned: every id a client holds is in the tracker, and no
\* follow-up issued with such an id finds the tracker without it
C2_TrackerWrittenBeforeResponse ==
    /\ \A p \in returned : /\ p[1] \in DOMAIN query_cluster_map
                           /\ query_cluster_map[p[1]] = p[2]
    /\ \A i \in FollowUpsInFlight :
          h[i].branch = "unknown" =>
              \A p \in h[i].known :
                  p[1] \notin {h[i].path[k] : k \in QueryIdMatches(h[i].path)}

\* a follow-up with a returned id is resolved from the tracker while
\* another submission is still waiting for its backend
C2_Witness ==
    \E i \in Slots, j \in Slots :
        /\ h[i].pc = "fu_wait" /\ h[i].branch = "resolved" /\ h[i].known # {}
        /\ h[j].pc = "stmt_wait"

\* C8: an empty or whitespace-only statement is answered 400 and nothing
\* is forwarded, by the core and by the gateway proxy alike
C8_EmptyStatementIs400 ==
    (last.kind = "statement" /\ Strip(last.query) = <<>>) =>
        (last.status = 400 /\ ~last.forwarded)

(***************************************************************************)
(* SpecStore: the core with its history store over time: decisions are     *)
(* cached, expire and are deleted, outcomes are reported, the store        *)
(* becomes unreachable and reachable again.                                *)
(***************************************************************************)
InitStore ==
    /\ InitCommon
    /\ service = "core"
    /\ BYPASS_MODE = TRUE
    /\ dynamo_up = TRUE
    /\ explain_backend = FailingBackend

StoreQueries == {S_PLAIN}

StoreFingerprints == {generate_fingerprint(q) : q \in StoreQueries}

StoreMetrics ==
    {[execution_time |-> 7, cost |-> 2, success |-> ok] : ok \in BOOLEAN}

NextStore ==
    \/ \E q \in StoreQueries : RouteQuery(q, explain_backend.io, explain_backend.dist)
    \/ \E f \in StoreFingerprints, m \in StoreMetrics : SaveMetrics(f, m)
    \/ \E f \in StoreFingerprints : StoreExpire(f)
    \/ Tick
    \/ StoreFlip

SpecStore == InitStore /\ [][NextStore]_vars

(***************************************************************************)
(* SpecRoute: the two routing endpoints of the core over the states of     *)
(* the store.                                                              *)
(***************************************************************************)
RouteQueries == {S_SHOW, S_PLAIN, S_CATALOG_LITERAL}

RouteFingerprints == {generate_fingerprint(q) : q \in RouteQueries}

RouteReplies == {Resp(200, "object", Id1, <<>>)}

NextRoute ==
    \/ \E q \in RouteQueries : RouteQuery(q, explain_backend.io, explain_backend.dist)
    \/ \E q \in RouteQueries : StatementStart(1, q, explain_backend.io, explain_backend.dist)
    \/ \E r \in RouteReplies : StatementFinish(1, r)
    \/ \E f \in RouteFingerprints : StoreExpire(f)
    \/ Tick
    \/ StoreFlip

SpecRoute == InitStore /\ [][NextRoute]_vars

\* the statements the metadata rule names
IsCatalogStatement(query) == IsMetadataQuery(query) \/ is_catalog_or_metadata_query(query)

\* the decisions taken: those of the completed request and of the
\* submissions being forwarded
DecisionsTaken ==
    (IF last.kind \in {"route", "statement"} THEN {last} ELSE {})
        \cup {h[i].info : i \in {j \in Slots : h[j].pc = "stmt_wait"}}

\* C3: in every state of the store a catalog or metadata statement is
\* routed to ecs without a probe, on POST /v1/statement and on
\* POST /api/v1/route
C3_CatalogStatementsGoToEcsUnprobed ==
    \A d \in DecisionsTaken :
        (IsCatalogStatement(d.query) /\ d.status \in {0, 200}) =>
            (d.cluster = "ecs" /\ d.sent = <<>>)

\* C4: after POST /api/v1/metrics the item's outcome fields are the
\* reported ones, and a reported failure makes the next historical factor
\* 1 - s for the stored score s
C4_MetricsStoredAsReported ==
    (last.kind = "metrics" /\ last.store_up) =>
        /\ DictGet(last.after, "execution_time", -1) = last.metrics.execution_time
        /\ DictGet(last.after, "cost", -1) = last.metrics.cost
        /\ DictGet(last.after, "success", TRUE) = last.metrics.success
        /\ (~last.metrics.success /\ "score" \in DOMAIN last.after) =>
              get_historical_factor([f \in {last.fingerprint} |-> last.after], TRUE,
                                    last.fingerprint)
                  = Scale - last.after.score

(***************************************************************************)
(* SpecProbe: the core's two decision endpoints over the answers the       *)
(* default backend can give to the probe.  Init draws the backend's        *)
(* scripts; the handlers apply the probe to them.                          *)
(***************************************************************************)
MaxPages == 2

\* a page without data that names a next page
WaitPage == OkPage(<<>>, FALSE)

\* a row that is not a list with a first cell
BareRow(shape) == [shape |-> shape, cell |-> [type |-> "none", tables |-> <<>>]]

RECURSIVE Waits(_)
Waits(k) == IF k = 0 THEN <<>> ELSE <<WaitPage>> \o Waits(k - 1)

\* the scripts of at most MaxPages pages that end with one of the pages
ScriptsEnding(finals) == {Waits(k) \o <<p>> : k \in 0..(MaxPages - 1), p \in finals}

IoCells ==
    {Cell("json_object", t) :
        t \in { <<>>, << <<"iceberg.s.t", SmallMiB>> >>, << <<"iceberg.s.t", LargeMiB>> >> }}
        \cup {Cell(ty, <<>>) : ty \in {"json_array", "bad_json", "empty_str", "not_str"}}
        \cup {Cell("plan", << <<"iceberg.s.t", SmallMiB>> >>)}

IoFinalPages ==
    {FailPage, Non200Page, ErrPage(MSG_CATALOG), ErrPage(MSG_SYNTAX), OkPage(<<>>, TRUE)}
        \cup {OkPage(<<BareRow(sh)>>, TRUE) : sh \in {"empty", "scalar"}}
        \cup {OkPage(<<c>>, TRUE) : c \in IoCells}

DistFinalPages ==
    {FailPage, ErrPage(MSG_CATALOG),
     OkPage(<<Cell("plan", << <<"iceberg.s.t", SmallMiB>> >>)>>, TRUE),
     OkPage(<<BareRow("scalar")>>, TRUE)}

\* EXPLAIN (TYPE IO) answered on three pages that all carry a row: the
\* second page reports FINISHED and still names a next page
SC_FINISHED_EARLY ==
    <<OkPage(<<Cell("json_object", << <<"iceberg.s.t", SmallMiB>> >>)>>, FALSE),
      OkPage(<<Cell("json_object", << <<"iceberg.s.t", LargeMiB>> >>)>>, TRUE),
      OkPage(<<Cell("json_object", <<>>)>>, TRUE)>>

\* the same pages with a non-200 answer in the place of the second
SC_NON200_EARLY == <<SC_FINISHED_EARLY[1], Non200Page, SC_FINISHED_EARLY[3]>>

IoScripts == ScriptsEnding(IoFinalPages) \cup {SC_FINISHED_EARLY, SC_NON200_EARLY}

ProbeQueries == {S_PLAIN}

ProbeReplies == {Resp(200, "object", Id1, <<>>)}

InitProbe ==
    /\ InitCommon
    /\ service = "core"
    /\ BYPASS_MODE = TRUE
    /\ dynamo_up \in BOOLEAN
    /\ explain_backend \in [io : IoScripts, dist : ScriptsEnding(DistFinalPages)]

NextProbe ==
    \/ \E q \in ProbeQueries : RouteQuery(q, explain_backend.io, explain_backend.dist)
    \/ \E q \in ProbeQueries : StatementStart(1, q, explain_backend.io, explain_backend.dist)
    \/ \E r \in ProbeReplies : StatementFinish(1, r)

SpecProbe == InitProbe /\ [][NextProbe]_vars

\* page k of the script is an error page with a view-resolution message,
\* and the probe reads it: the pages before it are answered and name it
ViewErrorOnPage(script, k) ==
    /\ script[k].kind = "error"
    /\ IsViewError(script[k].msg)
    /\ \A j \in 1..(k - 1) : script[j].kind = "ok" /\ (j = 1 \/ ~script[j].finished)

\* C6: a view-resolution error in the initial response or in a later
\* nextUri page of EXPLAIN (TYPE IO) makes the probe's result the view
\* error marker: no tables, no EXPLAIN (TYPE DISTRIBUTED), volume factor 0.5
C6_ViewErrorOnAnyPage ==
    \A d \in DecisionsTaken :
        (d.sent # <<>> /\ \E k \in 1..Len(d.io_script) : ViewErrorOnPage(d.io_script, k)) =>
            /\ d.fallback_reason = "view_error_catalog_not_found"
            /\ d.sent = <<"IO">>
            /\ d.decision.factors.volume = Scale \div 2

\* C7: no failure of the probe, an answer of unexpected shape or type
\* included, becomes an error response of POST /v1/statement or of
\* POST /api/v1/route
C7_ProbeFailureNeverAnError ==
    \A d \in DecisionsTaken : d.sent # <<>> => (d.reason = "computed" /\ d.status # 500)

(***************************************************************************)
(* SpecBody: one client, its submission and its polls; the backends'       *)
(* bodies carry their own URLs.  A backend names itself by the URL the     *)
(* service reached it at.                                                  *)
(***************************************************************************)
\* the body of a statement-protocol answer: nextUri while the query runs,
\* infoUri always
ProtocolBody(url, running) ==
    <<"{">> \o (IF running THEN NextUriField(url) ELSE <<>>) \o InfoUriField(url) \o <<"}">>

BodyStatementReplies(url) ==
    {TimeoutReply} \cup {Resp(200, "object", Id1, ProtocolBody(url, r)) : r \in BOOLEAN}

\* the Content-Length header: absent, small, at the streaming threshold
ContentLengths == {-1, 100, STREAMING_THRESHOLD}

\* one body in one chunk and in two chunks
BodyChunkings(url) ==
    { << ProtocolBody(url, TRUE) >>,
      << <<"{">> \o NextUriField(url), InfoUriField(url) \o <<"}">> >> }

BodyFollowReplies(url) ==
    {TimeoutReply} \cup
    {FollowResp(200, j, n, c) : j \in BOOLEAN, n \in ContentLengths, c \in BodyChunkings(url)}

BodyQueries == {S_KEEPALIVE, S_KEEPALIVE_LITERAL, S_PLAIN}

BodyRequests == { <<"GET", <<"v1", "statement", "executing", Id1, "1">> >> }

InitBody ==
    /\ InitCommon
    /\ service \in {"core", "gateway"}
    /\ BYPASS_MODE \in BOOLEAN
    /\ dynamo_up = FALSE
    /\ explain_backend = FailingBackend

NextBody ==
    \/ \E q \in BodyQueries : StatementStart(1, q, explain_backend.io, explain_backend.dist)
    \/ \E q \in BodyQueries : GwStatementStart(1, q)
    \/ \E r \in SpecCoreReplies : GwRouted(1, r)
    \/ /\ h[1].pc = "stmt_wait"
       /\ \E r \in BodyStatementReplies(CLUSTER_URLS[TargetOf(h[1].info.cluster)]) :
             StatementFinish(1, r)
    \/ \E m \in BodyRequests : ProxyStart(1, m[1], m[2])
    \/ /\ h[1].pc = "fu_wait"
       /\ \E r \in BodyFollowReplies(CLUSTER_URLS[TargetOf(h[1].cluster)]) : ProxyReply(1, r)
    \/ StreamRelay(1)

SpecBody == InitBody /\ [][NextBody]_vars

InternalUrls == {CLUSTER_URLS[c] : c \in Clusters}

HasInternalUrl(body) == \E i \in 1..Len(body) : body[i] \in InternalUrls

\* the body with every URL of from replaced by to
ReplaceUrl(body, from, to) ==
    [i \in 1..Len(body) |-> IF body[i] \in from THEN to ELSE body[i]]

\* what the backend sent in answer to the completed request
BackendBody ==
    IF last.kind = "statement" THEN last.backend_body ELSE Concat(last.backend_chunks)

\* C5: on an unbuffered GET follow-up every chunk of the upstream body is
\* relayed, in order, and the upstream response is closed only after the
\* last chunk is relayed
C5_StreamRelaysEveryChunk ==
    (last.kind = "followup" /\ last.streamed) =>
        /\ last.relayed = last.backend_chunks
        /\ last.closed_at = Len(last.backend_chunks)

\* C9: in proxy mode the body of an answered submission or JSON poll has
\* no backend-internal /v1/statement/ or /ui/ URL: each is replaced by
\* the proxy's URL, whatever the Content-Length
C9_ProxyModeKeepsClientOnProxy ==
    (/\ ~BYPASS_MODE
     /\ last.kind \in {"statement", "followup"}
     /\ last.status = 200
     /\ (last.kind = "statement" => last.forwarded)
     /\ (last.kind = "followup" => last.is_json)) =>
        /\ ~HasInternalUrl(last.body)
        /\ last.body = ReplaceUrl(BackendBody, InternalUrls, ProxyUrl(service))

\* C10: the body of a successful submission (a statement envelope whose
\* nextUri and infoUri name the answering cluster) has no backend-internal
\* URL: the chosen cluster's URLs are its external URL in bypass mode and
\* the proxy's URL in proxy mode
C10_SubmissionBodyIsRewritten ==
    (last.kind = "statement" /\ last.forwarded /\ last.status = 200) =>
        /\ ~HasInternalUrl(last.body)
        /\ last.body =
              ReplaceUrl(last.backend_body, {get_cluster_url(last.cluster)},
                         IF BYPASS_MODE THEN get_cluster_external_url(last.cluster)
                         ELSE ProxyUrl(service))

\* a submission answered by a cluster other than the default one, with a
\* nextUri and an infoUri of that cluster, in bypass mode
C10_Witness ==
    /\ BYPASS_MODE
    /\ last.kind = "statement" /\ last.forwarded /\ last.status = 200
    /\ last.cluster = "emr-standard"
    /\ Contains(last.backend_body, NextUriField(CLUSTER_URLS["emr-standard"]))
    /\ Contains(last.backend_body, InfoUriField(CLUSTER_URLS["emr-standard"]))

(***************************************************************************)
(* Claims about the life of a tracker entry                                *)
(***************************************************************************)
\* C11: an entry of the tracker never changes: a later submission whose
\* answer carries an id already recorded leaves the entry as it was, also
\* when that submission went to another cluster
C11_TrackerEntryNeverChanges ==
    [][\A q \in DOMAIN query_cluster_map :
          /\ q \in DOMAIN query_cluster_map'
          /\ query_cluster_map'[q] = query_cluster_map[q]]_vars

\* C12: the ids in the tracker are the ids of the submission responses
\* returned to clients, and a submission answered with the proxy's own
\* 500 or 504 records nothing
C12_TrackedIffReturned ==
    /\ [](DOMAIN query_cluster_map = {p[1] : p \in returned})
    /\ [][(/\ last' # last
           /\ last'.kind = "statement"
           /\ last'.status \in {500, 504}) =>
              query_cluster_map' = query_cluster_map]_vars

\* a submission has been answered 500 after the backend replied, and an
\* earlier one was returned with its id
C12_Witness ==
    /\ last.kind = "statement" /\ last.forwarded /\ last.status = 500
    /\ returned # {}

(***************************************************************************)
(* Claims about keep-alive statements                                      *)
(***************************************************************************)
\* C13: a keep-alive statement (SELECT 1, SELECT 1 AS KEEPALIVE,
\* SELECT 1 AS 1, or one that starts with SELECT 'KEEP ALIVE' or
\* SELECT 'KEEPALIVE') is forwarded to ecs without the decision machinery:
\* no routing decision is asked for, no probe is sent, nothing is archived
\* and the history store is left as it was
C13_KeepaliveSkipsDecision ==
    /\ [](\A d \in DecisionsTaken :
            (d.kind = "statement" /\ d.forwarded /\ IsKeepaliveCore(d.query)) =>
                /\ d.reason = "keepalive"
                /\ d.cluster = "ecs"
                /\ d.sent = <<>>
                /\ d.saved = 0)
    /\ [](\A i \in Slots : h[i].pc = "route_wait" => ~IsKeepaliveCore(h[i].query))
    /\ [][\A i \in Slots :
            (/\ h[i].pc = "idle"
             /\ h'[i].pc = "stmt_wait"
             /\ IsKeepaliveCore(h'[i].info.query)) => table' = table]_vars

(***************************************************************************)
(* SpecEngine: the core started with one of several configurations of the  *)
(* decision engine, in front of a backend whose probe fails or reports a   *)
(* large table; decisions are stored, reused as history and expire.        *)
(***************************************************************************)
\* DYRASQL_WEIGHT_VOLUME = DYRASQL_WEIGHT_COMPLEXITY =
\* DYRASQL_WEIGHT_HISTORICAL = 1.0: accepted with a warning
HeavyWeights == [DefaultConfig EXCEPT !.w1 = Scale, !.w2 = Scale, !.w3 = Scale]

\* DYRASQL_ECS_THRESHOLD = 0.0: no score selects ecs
NoEcsThreshold == [DefaultConfig EXCEPT !.ecs_threshold = 0]

\* DYRASQL_ECS_THRESHOLD = DYRASQL_EMR_STANDARD_THRESHOLD = 0.365, the score
\* of a statement without joins or filters whose probe is empty and whose
\* fingerprint has no history: that score lies on both boundaries
PointThresholds ==
    [DefaultConfig EXCEPT !.ecs_threshold = 3650, !.emr_standard_threshold = 3650]

EngineConfigs == {DefaultConfig, HeavyWeights, NoEcsThreshold, PointThresholds}

EngineBackends == {FailingBackend, [io |-> SC_TABLE(LargeMiB), dist |-> SC_FAIL]}

\* a statement that reads the information schema
S_CATALOG == <<"select", " ", "a", " ", "from", " ", "information_schema", ".", "t">>

EngineQueries == {S_PLAIN, S_CATALOG}

EngineFingerprints == {generate_fingerprint(q) : q \in EngineQueries}

InitEngine ==
    /\ statements = <<>>
    /\ analyzed = <<>>
    /\ decision_engine \in EngineConfigs
    /\ explain_backend \in EngineBackends
    /\ service = "core"
    /\ BYPASS_MODE = TRUE
    /\ dynamo_up = TRUE
    /\ query_cluster_map = <<>>
    /\ table = <<>>
    /\ now = 0
    /\ h = [i \in Slots |-> Idle]
    /\ last = NoLast
    /\ returned = {}

NextEngine ==
    \/ \E q \in EngineQueries : RouteQuery(q, explain_backend.io, explain_backend.dist)
    \/ \E f \in EngineFingerprints, m \in StoreMetrics : SaveMetrics(f, m)
    \/ \E f \in EngineFingerprints : StoreExpire(f)
    \/ Tick
    \/ StoreFlip

SpecEngine == InitEngine /\ [][NextEngine]_vars

InUnit(x) == x >= 0 /\ x <= Scale

\* C14: every decision the engine computes has its three factors and its
\* score in [0, 1], under every configuration it accepts at startup and
\* every content of the store the service has written
C14_FactorsAndScoreInUnit ==
    \A d \in DecisionsTaken :
        d.reason = "computed" =>
            /\ InUnit(d.decision.factors.volume)
            /\ InUnit(d.decision.factors.complexity)
            /\ InUnit(d.decision.factors.historical)
            /\ InUnit(d.decision.score)

\* the items of the table that hold a decision
StoredDecisions == {table[f] : f \in {g \in DOMAIN table : "cluster" \in DOMAIN table[g]}}

\* the item save_decision writes for the fixed catalog decision
IsCatalogItem(item) ==
    item.cluster = "ecs" /\ item.score = 0 /\ item.factors = NoFactors

\* C15: every stored decision, computed or the fixed catalog one, has the
\* cluster that the thresholds in force give for its score
C15_StoredClusterMatchesScore ==
    \A item \in StoredDecisions : item.cluster = _select_cluster(item.score, decision_engine)

\* C15 as it holds: every stored computed decision has the cluster that
\* the thresholds give for its score; the fixed catalog decision (ecs,
\* score 0) has it when the ecs threshold is above 0
C15_StoredClusterMatchesScoreAmended ==
    \A item \in StoredDecisions :
        (decision_engine.ecs_threshold > 0 \/ ~IsCatalogItem(item)) =>
            item.cluster = _select_cluster(item.score, decision_engine)

\* a computed decision for the large table and the catalog decision are
\* both in the store
C15_Witness ==
    /\ \E item \in StoredDecisions : IsCatalogItem(item)
    /\ last.kind = "route" /\ last.reason = "computed"
    /\ generate_fingerprint(last.query) \in DOMAIN table
    /\ ~IsCatalogItem(table[generate_fingerprint(last.query)])
    /\ table[generate_fingerprint(last.query)].cluster = last.cluster

(***************************************************************************)
(* Claims about the probe's result and the volume factor (SpecProbe)       *)
(***************************************************************************)
\* C16: when the probe is empty (it failed, met a view error or found no
\* table) the volume factor of the decision is exactly 0.5
C16_EmptyProbeVolumeIsHalf ==
    \A d \in DecisionsTaken :
        (/\ d.reason = "computed"
         /\ DOMAIN analyze_query_io(d.io_script, d.dist_script).tables = {}) =>
            d.decision.factors.volume = Scale \div 2

\* decisions were computed after a view error of the probe, on both
\* endpoints
C16_Witness ==
    /\ last.kind = "route" /\ last.reason = "computed"
    /\ last.fallback_reason = "view_error_catalog_not_found"
    /\ \E i \in Slots : /\ h[i].pc = "stmt_wait"
                         /\ h[i].info.reason = "computed"
                         /\ h[i].info.fallback_reason = "view_error_catalog_not_found"
                         /\ h[i].info.decision.factors.volume = Scale \div 2

(***************************************************************************)
(* Claims about the history store (SpecStore)                              *)
(***************************************************************************)
\* C17: every item of the store has a cluster that is ecs, emr-standard
\* or emr-optimized, after any sequence of save_decision and save_metrics
\* calls, save_metrics for a fingerprint without a decision included
C17_EveryItemHasValidCluster ==
    \A f \in DOMAIN table : DictGet(table[f], "cluster", "None") \in Clusters

\* the request completed by this step is a routing request that found a
\* cached decision
LookupReturnedRecord == last' # last /\ last'.kind = "route" /\ last'.reason = "cached"

\* the item of the request completed by this step, before the step
ItemLookedUp == GetItem(table, generate_fingerprint(last'.query))

\* C18: the lookup returns an item only while now < ttl, and nothing for
\* an item whose ttl is at or before now, deleted or not
C18_LookupReturnsOnlyUnexpired ==
    [][/\ LookupReturnedRecord =>
             (ItemLookedUp.present /\ now < DictGet(ItemLookedUp, "ttl", 0))
       /\ (/\ last' # last /\ last'.kind = "route" /\ dynamo_up
           /\ ItemLookedUp.present
           /\ now < DictGet(ItemLookedUp, "ttl", 0)) => last'.reason = "cached"]_vars

\* a decision was computed anew at the instant an item expired
C18_Witness ==
    /\ last.kind = "route" /\ last.reason = "computed"
    /\ now = cache_ttl_hours
    /\ generate_fingerprint(last.query) \in DOMAIN table
    /\ table[generate_fingerprint(last.query)].ttl = now + cache_ttl_hours

DecisionFields == {"cluster", "score", "factors", "ttl"}

\* C19: save_decision writes ttl = now + 24 h; save_metrics leaves the
\* item's cluster, score, factors and ttl as they were and changes only
\* the outcome fields
C19_PersistTtlAndMetricsFrame ==
    /\ [][(/\ last' # last /\ last'.kind = "route" /\ dynamo_up
           /\ last'.reason \in {"computed", "metadata"}) =>
              GetItem(table', generate_fingerprint(last'.query)).ttl = now + cache_ttl_hours]_vars
    /\ [](last.kind = "metrics" =>
            \A k \in DecisionFields :
                /\ k \in DOMAIN last.after <=> k \in DOMAIN last.before
                /\ k \in DOMAIN last.before => last.after[k] = last.before[k])

\* an outcome was reported for a fingerprint that has a stored decision
C19_Witness ==
    /\ last.kind = "metrics" /\ last.store_up
    /\ "cluster" \in DOMAIN last.before
    /\ "success" \in DOMAIN last.after

(***************************************************************************)
(* Claims about a failing history store (SpecRoute)                        *)
(***************************************************************************)
\* the decision a handler takes in this step, as a set: that of a
\* completed routing request, of a submission answered at once or of a
\* submission that starts to wait for its backend
DecidedInStep ==
    (IF /\ last' # last
        /\ (last'.kind = "route" \/ (last'.kind = "statement" /\ h' = h))
     THEN {last'} ELSE {})
        \cup {h'[i].info : i \in {j \in Slots : h[j].pc = "idle" /\ h'[j].pc = "stmt_wait"}}

\* C20: while the store fails the lookup returns nothing, save_decision
\* returns without writing, the historical factor is 0.5, and a request is
\* still decided (and a submission forwarded) without an error response
C20_StoreFailureDegrades ==
    [][~dynamo_up =>
          \A d \in DecidedInStep :
              /\ d.status \in {0, 200}
              /\ d.reason \in {"keepalive", "metadata", "computed"}
              /\ d.reason = "computed" => d.decision.factors.historical = Scale \div 2
              /\ d.kind = "statement" => d.forwarded
              /\ d.kind = "statement" =>
                    \E i \in Slots : h'[i].pc = "stmt_wait" /\ h'[i].info = d
              /\ table' = table]_vars

\* a submission was decided anew and forwarded while the store, which
\* holds an unexpired decision for the statement, is unreachable
C20_Witness ==
    /\ ~dynamo_up
    /\ \E i \in Slots :
          /\ h[i].pc = "stmt_wait"
          /\ h[i].info.reason = "computed"
          /\ generate_fingerprint(h[i].info.query) \in DOMAIN table
          /\ now < table[generate_fingerprint(h[i].info.query)].ttl

(***************************************************************************)
(* Claims about the archive of EXPLAIN results (SpecProbe); SAVE_EXPLAINS  *)
(* has its default, true.                                                  *)
(***************************************************************************)
\* C21: every probe invocation writes exactly one archive record, whatever
\* its outcome, a fall back from EXPLAIN (TYPE IO) to
\* EXPLAIN (TYPE DISTRIBUTED) included
C21_OneArchiveRecordPerProbe ==
    \A d \in DecisionsTaken : d.sent # <<>> => d.saved = 1

(***************************************************************************)
(* Claims about statements of one fingerprint (SpecRoute)                  *)
(***************************************************************************)
\* the decision the endpoint of kind takes for query in the current state
\* of the store
DecisionNow(kind, query) ==
    IF kind = "route"
    THEN route_query(query, table, dynamo_up, now,
                     explain_backend.io, explain_backend.dist, decision_engine).decision
    ELSE trino_statement_decision(query, table, dynamo_up, now,
                     explain_backend.io, explain_backend.dist, decision_engine).decision

\* C22: the decision a handler takes for a statement s is the decision the
\* same endpoint takes, in the same state of the store, for every statement
\* s' of the same fingerprint: the same cluster, score and factors, also
\* when s and s' differ in the contents of a string literal
C22_SameFingerprintSameDecision ==
    [][\A d \in DecidedInStep :
          \A s2 \in RouteQueries :
              generate_fingerprint(s2) = generate_fingerprint(d.query) =>
                  DecisionNow(d.kind, s2) = d.decision]_vars

(***************************************************************************)
(* SpecText: the text functions of QueryAnalyzer applied to two statement  *)
(* texts a client can send.                                                *)
(***************************************************************************)
SelectAFrom == <<"select", " ", "a", " ", "from", " ">>

\* select a from t where b = 'x' and c = 1
F_BASE ==
    SelectAFrom \o <<"t", " ", "where", " ", "b", " ", "=", " ", "'", "x", "'", " ",
                     "and", " ", "c", " ", "=", " ", "1">>

\* F_BASE with other runs of whitespace, around it too
F_SPACED ==
    <<" ", "select", " ", " ", "a", "\n", "from", "\t", "t", " ", "where", " ", "b", " ",
      "=", " ", "'", "x", "'", " ", "and", " ", "c", " ", "=", "\n", " ", "1", "\n">>

\* F_BASE in upper case
F_UPPER ==
    <<"SELECT", " ", "A", " ", "FROM", " ", "T", " ", "WHERE", " ", "B", " ", "=", " ",
      "'", "x", "'", " ", "AND", " ", "C", " ", "=", " ", "1">>

\* F_BASE with the integer literal 27
F_INT ==
    SelectAFrom \o <<"t", " ", "where", " ", "b", " ", "=", " ", "'", "x", "'", " ",
                     "and", " ", "c", " ", "=", " ", "2", "7">>

\* F_BASE with the string literal 'y z'
F_STR ==
    SelectAFrom \o <<"t", " ", "where", " ", "b", " ", "=", " ", "'", "y", " ", "z", "'", " ",
                     "and", " ", "c", " ", "=", " ", "1">>

\* F_BASE with no whitespace around the equals signs
F_TIGHT ==
    SelectAFrom \o <<"t", " ", "where", " ", "b", "=", "'", "x", "'", " ",
                     "and", " ", "c", "=", "1">>

\* F_BASE with the string literal 'it''s', whose value has a quote
F_ESCAPED ==
    SelectAFrom \o <<"t", " ", "where", " ", "b", " ", "=", " ", "'", "it", "'", "'", "s", "'",
                     " ", "and", " ", "c", " ", "=", " ", "1">>

\* select a from t1, select a from t2, select a from s
F_T1 == SelectAFrom \o <<"t", "1">>

F_T2 == SelectAFrom \o <<"t", "2">>

F_S == SelectAFrom \o <<"s">>

FingerprintStatements ==
    {F_BASE, F_SPACED, F_UPPER, F_INT, F_STR, F_TIGHT, F_ESCAPED, F_T1, F_T2, F_S}

\* select a from t
N_ONE == SelectAFrom \o <<"t">>

\* two-part references
N_TWO == SelectAFrom \o <<"s", ".", "t">>

N_TWO_LONG == SelectAFrom \o <<"sales", ".", "orders">>

N_TWO_SPACED == <<"select", " ", "a", " ", "FROM", "\n", " ", "s", ".", "t">>

N_TWO_QUOTED == SelectAFrom \o <<Quote, "s", Quote, ".", Quote, "t", Quote>>

N_TWO_KNOWN == SelectAFrom \o <<"hive", ".", "t">>

\* select a from s.t left outer join u.v
N_JOIN ==
    SelectAFrom \o <<"s", ".", "t", " ", "left", " ", "outer", " ", "join", " ", "u", ".", "v">>

\* three-part references: names of one character, longer names, a catalog
\* name first, quoted names
N_THREE_SHORT == SelectAFrom \o <<"c", ".", "s", ".", "t">>

N_THREE_LONG == SelectAFrom \o <<"cat", ".", "sales", ".", "orders">>

N_THREE_KNOWN == SelectAFrom \o <<"hive", ".", "sales", ".", "orders">>

N_THREE_QUOTED ==
    SelectAFrom \o <<Quote, "c", Quote, ".", Quote, "s", Quote, ".", Quote, "t", Quote>>

\* select a from t where b = 'from s.join u.v': a string literal that
\* reads like a reference to a table named join and a second reference
N_KEYWORD_NAME ==
    SelectAFrom \o <<"t", " ", "where", " ", "b", " ", "=", " ", "'", "from", " ",
                     "s", ".", "join", " ", "u", ".", "v", "'">>

NormalizerStatements ==
    {N_ONE, N_TWO, N_TWO_LONG, N_TWO_SPACED, N_TWO_QUOTED, N_TWO_KNOWN, N_JOIN,
     N_THREE_SHORT, N_THREE_LONG, N_THREE_KNOWN, N_THREE_QUOTED, N_KEYWORD_NAME}

TextStatements == FingerprintStatements \cup NormalizerStatements

\* the two statements compared
Pair == 1..2

\* a result not computed yet
Unset == <<"unset">>

InitText ==
    /\ statements \in [Pair -> TextStatements]
    /\ analyzed = [k \in Pair |->
                      [fingerprint |-> Unset, normalized |-> Unset, renormalized |-> Unset]]
    /\ decision_engine = DefaultConfig
    /\ explain_backend = FailingBackend
    /\ service = "core"
    /\ BYPASS_MODE = TRUE
    /\ query_cluster_map = <<>>
    /\ table = <<>>
    /\ dynamo_up = FALSE
    /\ now = 0
    /\ h = [i \in Slots |-> Idle]
    /\ last = NoLast
    /\ returned = {}

TextFrame ==
    UNCHANGED <<statements, decision_engine, explain_backend, service, BYPASS_MODE,
                query_cluster_map, table, dynamo_up, now, h, last, returned>>

\* fingerprint = generate_fingerprint(query)
GenerateFingerprint(k) ==
    /\ analyzed[k].fingerprint = Unset
    /\ analyzed' = [analyzed EXCEPT ![k].fingerprint = generate_fingerprint(statements[k])]
    /\ TextFrame

\* normalized_query = self._normalize_query_with_catalog(query)
NormalizeQuery(k) ==
    /\ analyzed[k].normalized = Unset
    /\ analyzed' = [analyzed EXCEPT
                       ![k].normalized = _normalize_query_with_catalog(statements[k])]
    /\ TextFrame

\* the normalizer applied to its own result
NormalizeAgain(k) ==
    /\ analyzed[k].normalized # Unset
    /\ analyzed[k].renormalized = Unset
    /\ analyzed' = [analyzed EXCEPT
                       ![k].renormalized = _normalize_query_with_catalog(analyzed[k].normalized)]
    /\ TextFrame

NextText ==
    \/ \E k \in Pair : GenerateFingerprint(k)
    \/ \E k \in Pair : NormalizeQuery(k)
    \/ \E k \in Pair : NormalizeAgain(k)

SpecText == InitText /\ [][NextText]_vars

(***************************************************************************)
(* Claims about the fingerprint (SpecText)                                 *)
(***************************************************************************)
\* the position of the quote that closes the SQL string literal whose
\* contents start at s[i], two quotes in a row being one quote of the
\* value; Len(s) + 1 when the literal is not closed
RECURSIVE SqlLiteralEnd(_, _)
SqlLiteralEnd(s, i) ==
    IF i > Len(s) THEN Len(s) + 1
    ELSE IF s[i] # "'" THEN SqlLiteralEnd(s, i + 1)
    ELSE IF i < Len(s) /\ s[i + 1] = "'" THEN SqlLiteralEnd(s, i + 2)
    ELSE i

RECURSIVE SqlLexemes(_, _, _)
\* The lexemes of the SQL text s from position i on, without its
\* whitespace: a string literal reads <string>, an integer literal
\* <integer>, a keyword or an identifier reads in lower case (in_name: the
\* token before s[i] belongs to the same identifier).
SqlLexemes(s, i, in_name) ==
    IF i > Len(s) THEN <<>>
    ELSE IF s[i] \in Blanks THEN SqlLexemes(s, i + 1, FALSE)
    ELSE IF s[i] = "'"
         THEN <<"<string>">> \o SqlLexemes(s, SqlLiteralEnd(s, i + 1) + 1, FALSE)
    ELSE IF s[i] \in Digits
         THEN IF in_name
              THEN <<s[i]>> \o SqlLexemes(s, i + 1, TRUE)
              ELSE <<"<integer>">> \o SqlLexemes(s, i + RunOf(s, i, IsWordChars), FALSE)
    ELSE <<LowerTok(s[i])>> \o SqlLexemes(s, i + 1, IsLetterTok(s[i]))

\* s1 and s2 differ in nothing but whitespace, letter case, integer
\* literals and string literals
SameButLiteralsAndFormat(s1, s2) == SqlLexemes(s1, 1, FALSE) = SqlLexemes(s2, 1, FALSE)

BothFingerprinted == \A k \in Pair : analyzed[k].fingerprint # Unset

\* C23: two statements that differ only in whitespace, letter case, integer
\* literals or string literals have the same fingerprint
C23_FormatAndLiteralsShareFingerprint ==
    (BothFingerprinted /\ SameButLiteralsAndFormat(statements[1], statements[2])) =>
        analyzed[1].fingerprint = analyzed[2].fingerprint

\* C24: two statements have the same fingerprint only if they differ in
\* nothing but literals and formatting; statements that differ in an
\* identifier have different fingerprints
C24_EqualFingerprintOnlyForSameStatement ==
    (BothFingerprinted /\ analyzed[1].fingerprint = analyzed[2].fingerprint) =>
        SameButLiteralsAndFormat(statements[1], statements[2])

(***************************************************************************)
(* Claims about the catalog normalizer (SpecText)                          *)
(***************************************************************************)
\* an identifier at position i, quoted or not: its number of tokens
NameLen(s, i) == IF QuotedLen(s, i) > 0 THEN QuotedLen(s, i) ELSE IdentLen(s, i)

IsRefKeyword(t) == LowerTok(t) \in {"from", "join"}

\* s[i] is FROM or JOIN and a three-part reference a.b.c follows it
ThreePartAt(s, i) ==
    LET p == i + 1 + RunOf(s, i + 1, IsBlank)
        a == NameLen(s, p)
        b == NameLen(s, p + a + 1)
        c == NameLen(s, p + a + b + 2)
    IN  /\ IsRefKeyword(s[i])
        /\ p > i + 1
        /\ a >= 1
        /\ p + a <= Len(s)
        /\ s[p + a] = "."
        /\ b >= 1
        /\ p + a + b + 1 <= Len(s)
        /\ s[p + a + b + 1] = "."
        /\ c >= 1

\* s has references after FROM and JOIN, all of three parts
OnlyThreePartReferences(s) ==
    /\ \E i \in 1..Len(s) : ThreePartAt(s, i)
    /\ \A i \in 1..Len(s) : IsRefKeyword(s[i]) => ThreePartAt(s, i)

\* C25: the normalizer never rewrites a three-part reference a.b.c that
\* follows FROM or JOIN, whatever a is and however long the names are: a
\* statement whose references all have three parts is returned as it is
C25_ThreePartReferenceUntouched ==
    \A k \in Pair :
        (analyzed[k].normalized # Unset /\ OnlyThreePartReferences(statements[k])) =>
            analyzed[k].normalized = statements[k]

NoKeywordAsName(s) ==
    \A i \in 2..Len(s) : IsRefKeyword(s[i]) => s[i - 1] # "."

C27_ProbeRequestsSuspend ==
    [][\A d \in DecidedInStep : d.sent = <<>>]_vars

\* the probe of the decision got no answer: requests raised (a timeout, a
\* refused connection) on the EXPLAIN (TYPE IO) and on the
\* EXPLAIN (TYPE DISTRIBUTED) submission
ProbeTimedOut(d) ==
    /\ d.sent = <<"IO", "DISTRIBUTED">>
    /\ d.io_script[1].kind = "fail"
    /\ d.dist_script[1].kind = "fail"

\* C28 (Spec): a timeout of the outbound request to a backend, on a
\* submission or on a follow-up, is answered with 504; a timeout inside the
\* probe is not surfaced: the decision is computed with an empty probe and
\* the submission is forwarded
C28_TimeoutIs504 ==
    /\ []((last.kind \in {"statement", "followup"} /\ last.reply = "timeout") =>
              last.status = 504)
    /\ [][\A d \in DecidedInStep :
              ProbeTimedOut(d) =>
                  /\ d.status \in {0, 200}
                  /\ d.reason = "computed"
                  /\ d.fallback_reason = "explain_failed"
                  /\ d.decision.factors.volume = Scale \div 2
                  /\ d.kind = "statement" => d.forwarded]_vars

\* a submission whose probe timed out was forwarded, and the forwarded
\* request timed out
C28_Witness ==
    /\ last.kind = "statement"
    /\ last.reply = "timeout"
    /\ ProbeTimedOut(last)

\* C29 (SpecProbe): the body forwarded to the chosen backend is exactly the
\* client's statement; the catalog-normalized text is what the probe's
\* EXPLAIN statements carry, one per EXPLAIN sent
C29_ForwardedBodyIsOriginal ==
    \A d \in DecisionsTaken :
        /\ d.forwarded => d.content = d.query
        /\ Len(d.explain_queries) = Len(d.sent)
        /\ \A k \in 1..Len(d.explain_queries) :
              /\ SubSeq(d.explain_queries[k], 1, 8) =
                    <<"EXPLAIN", " ", "(", "TYPE", " ", d.sent[k], ")", " ">>
              /\ SubSeq(d.explain_queries[k], 9, Len(d.explain_queries[k])) =
                    _normalize_query_with_catalog(d.query)

\* a statement the normalizer changes was probed and is being forwarded
C29_Witness ==
    \E i \in Slots :
        /\ h[i].pc = "stmt_wait"
        /\ h[i].info.sent # <<>>
        /\ _normalize_query_with_catalog(h[i].info.query) # h[i].info.query

\* C30 (Spec): a client request is sent to one backend cluster at most
\* once: a handler that waits for a backend leaves the wait by answering
\* the client (or by streaming the answer it got), also after a timeout or
\* an error, and a wait for a backend is entered only by a handler that has
\* not asked a backend yet
C30_NoResend ==
    [][\A i \in Slots :
          /\ (h[i].pc \in {"stmt_wait", "fu_wait"} /\ h'[i] # h[i]) =>
                 /\ h'[i].pc \in {"idle", "streaming"}
                 /\ h'[i].pc = "idle" => last'.kind \in {"statement", "followup"}
          /\ (h[i].pc = "streaming" /\ h'[i].pc # "streaming") => h'[i].pc = "idle"
          /\ (h'[i].pc \in {"stmt_wait", "fu_wait"} /\ h'[i] # h[i]) =>
                 h[i].pc \in {"idle", "route_wait", "ui_wait"}]_vars

\* a follow-up that timed out was answered while the other handler still
\* waits for its backend
C30_Witness ==
    /\ last.kind = "followup"
    /\ last.reply = "timeout"
    /\ last.status = 504
    /\ \E i \in Slots : h[i].pc \in {"stmt_wait", "fu_wait"}

(***************************************************************************)
(* Claims about the target of a follow-up (Spec)                           *)
(***************************************************************************)
\* the query id found in the path: the first segment of the query-id shape
\* that has a slash on each side; "" when there is none
IdFoundIn(path) ==
    IF \E i \in 2..(Len(path) - 1) : path[i] \in ShapedIds
    THEN path[CHOOSE i \in 2..(Len(path) - 1) :
                  /\ path[i] \in ShapedIds
                  /\ \A k \in 2..(i - 1) : path[k] \notin ShapedIds]
    ELSE ""

\* C31: when a follow-up resolves its target, the target is the tracker's
\* value for the query id found in the path if an id of the query-id shape
\* is found and is in the tracker, and ecs in every other case
C31_FollowUpTarget ==
    [][\A i \in Slots :
          (h'[i].pc = "fu_wait" /\ h[i].pc # "fu_wait") =>
              h'[i].cluster =
                  IF IdFoundIn(h'[i].path) # "" /\ IdFoundIn(h'[i].path) \in DOMAIN query_cluster_map
                  THEN query_cluster_map[IdFoundIn(h'[i].path)]
                  ELSE "ecs"]_vars

\* a follow-up was resolved through the tracker to a cluster other than
\* ecs while the tracker also holds an id that no path can match
C31_Witness ==
    /\ \E i \in Slots :
          /\ h[i].pc = "fu_wait"
          /\ h[i].branch = "resolved"
          /\ h[i].cluster # "ecs"
    /\ \E i \in Slots :
          /\ h[i].pc = "fu_wait"
          /\ h[i].branch = "nomatch"
          /\ h[i].cluster = "ecs"
          /\ \E k \in 1..Len(h[i].path) : h[i].path[k] \in DOMAIN query_cluster_map

(***************************************************************************)
(* Claims about the selection of the cluster from the score (SpecEngine)   *)
(***************************************************************************)
\* C32: every computed decision has exactly the cluster of its score:
\* ecs below the ecs threshold T1, emr-standard from T1 to the emr-standard
\* threshold T2 with both boundaries included, emr-optimized above T2
C32_ScoreSelectsOneCluster ==
    \A d \in DecisionsTaken :
        d.reason = "computed" =>
            /\ d.decision.cluster \in Clusters
            /\ (d.decision.score < decision_engine.ecs_threshold
                    <=> d.decision.cluster = "ecs")
            /\ ((/\ decision_engine.ecs_threshold <= d.decision.score
                 /\ d.decision.score <= decision_engine.emr_standard_threshold)
                    <=> d.decision.cluster = "emr-standard")
            /\ (d.decision.score > decision_engine.emr_standard_threshold
                    <=> d.decision.cluster = "emr-optimized")

\* a computed decision whose score lies on both boundaries selected
\* emr-standard
C32_Witness ==
    /\ last.kind = "route" /\ last.reason = "computed"
    /\ last.decision.score = decision_engine.ecs_threshold
    /\ last.decision.score = decision_engine.emr_standard_threshold
    /\ last.decision.cluster = "emr-standard"

(***************************************************************************)
(* Claims about the fallback to EXPLAIN (TYPE DISTRIBUTED) and the polling *)
(* loop (SpecProbe)                                                        *)
(***************************************************************************)
\* what _execute_trino_query returned for EXPLAIN (TYPE IO)
IoResult(d) == _execute_trino_query(d.io_script)

\* the IO attempt was classified as a view error
IoViewError(d) ==
    IoResult(d).tag = "error" /\ IsViewError(IoResult(d).error)

\* the IO attempt yielded no rows
IoNoRows(d) == IoResult(d).data = <<>>

\* the IO attempt yielded a plan whose inputTableColumnInfos is empty
IoEmptyTableInfos(d) ==
    /\ IoResult(d).data # <<>>
    /\ IoResult(d).data[1].shape = "cell"
    /\ IoResult(d).data[1].cell.type = "json_object"
    /\ IoResult(d).data[1].cell.tables = <<>>

\* C33: a probe submits EXPLAIN (TYPE DISTRIBUTED) if and only if its
\* EXPLAIN (TYPE IO) was not classified as a view error and yielded no rows
\* or an empty inputTableColumnInfos; it submits it at most once, after
\* EXPLAIN (TYPE IO)
C33_DistributedIffIoEmpty ==
    \A d \in DecisionsTaken :
        d.sent # <<>> =>
            /\ d.sent[1] = "IO"
            /\ d.sent \in {<<"IO">>, <<"IO", "DISTRIBUTED">>}
            /\ (d.sent = <<"IO", "DISTRIBUTED">>
                    <=> (~IoViewError(d) /\ (IoNoRows(d) \/ IoEmptyTableInfos(d))))

\* the scripts a probe submitted an EXPLAIN statement against
ScriptsSubmitted(d) ==
    (IF Len(d.sent) >= 1 THEN {d.io_script} ELSE {})
        \cup (IF Len(d.sent) >= 2 THEN {d.dist_script} ELSE {})

\* the polling loop ends at page k: the page is answered with a status
\* other than 200, reports state FINISHED or names no next page, or the
\* request for it fails
EndsPolling(script, k) ==
    \/ script[k].kind \in {"non200", "fail"}
    \/ script[k].finished
    \/ k = Len(script)

\* the first page at which the polling loop ends
FirstEnd(script) ==
    CHOOSE k \in 2..Len(script) :
        /\ EndsPolling(script, k)
        /\ \A j \in 2..(k - 1) : ~EndsPolling(script, j)

RECURSIVE RowsUpTo(_, _)
\* the data rows of pages 1..k in order
RowsUpTo(script, k) ==
    IF k = 0 THEN <<>>
    ELSE RowsUpTo(script, k - 1) \o (IF script[k].kind = "ok" THEN script[k].rows ELSE <<>>)

\* C34: a probe submits at most two EXPLAIN statements and returns; when
\* the answer to one names a next page, the loop requests the pages up to
\* the first one that is non-200, reports FINISHED or names no next page
\* and none after it, and the result holds the rows of these pages in
\* order (nothing when a request failed)
C34_PollingStopsAtTerminalPage ==
    \A d \in DecisionsTaken :
        /\ Len(d.sent) <= 2
        /\ d.status # 0 \/ d.forwarded
        /\ \A script \in ScriptsSubmitted(d) :
              (script[1].kind = "ok" /\ Len(script) > 1) =>
                  With(_execute_trino_query(script), LAMBDA result :
                      /\ result.polled = FirstEnd(script) - 1
                      /\ IF script[FirstEnd(script)].kind = "fail"
                         THEN result.tag = "none"
                         ELSE /\ result.tag = "data"
                              /\ result.data = RowsUpTo(script, FirstEnd(script)))

\* a probe whose EXPLAIN (TYPE IO) was answered on pages with rows, the
\* second of them FINISHED and followed by a page that was not requested
C34_Witness ==
    /\ last.kind = "route" /\ last.status = 200
    /\ last.io_script = SC_FINISHED_EARLY
    /\ last.sent = <<"IO">>
    /\ _execute_trino_query(last.io_script).polled = 1
    /\ Len(_execute_trino_query(last.io_script).data) = 2
    /\ last.decision.factors.volume # Scale \div 2

(***************************************************************************)
(* SpecHistory: the core started over a table that already holds an item   *)
(* for the statement's fingerprint, of any score and outcome, expired or   *)
(* not; the statement is routed, outcomes are reported, time passes and    *)
(* the store becomes unreachable and reachable again.                      *)
(***************************************************************************)
HistoryScores == {0, Scale \div 4, Scale \div 2, Scale}

\* the items save_decision wrote, before and after save_metrics
HistoryItems ==
    LET decided ==
            {[present |-> TRUE, cluster |-> _select_cluster(score, DefaultConfig),
              score |-> score, factors |-> NoFactors, ttl |-> ttl] :
                score \in HistoryScores, ttl \in {0, cache_ttl_hours}}
    IN  decided \cup
        {[k \in DOMAIN item \cup {"execution_time", "cost", "success"} |->
             CASE k = "execution_time" -> 0
               [] k = "cost" -> 0
               [] k = "success" -> ok
               [] OTHER -> item[k]] : item \in decided, ok \in BOOLEAN}

HistoryTables ==
    {<<>>} \cup {PutItem(<<>>, f, item) : f \in StoreFingerprints, item \in HistoryItems}

InitHistory ==
    /\ statements = <<>>
    /\ analyzed = <<>>
    /\ decision_engine = DefaultConfig
    /\ explain_backend = FailingBackend
    /\ service = "core"
    /\ BYPASS_MODE = TRUE
    /\ dynamo_up = TRUE
    /\ query_cluster_map = <<>>
    /\ table \in HistoryTables
    /\ now = 0
    /\ h = [i \in Slots |-> Idle]
    /\ last = NoLast
    /\ returned = {}

SpecHistory == InitHistory /\ [][NextStore]_vars

(***************************************************************************)
(* Claims about the historical factor (SpecHistory)                        *)
(***************************************************************************)
\* C35: the historical factor of a computed decision is 0.5 when the table
\* holds no item for the fingerprint, the item's score when its success
\* is true and 1 - score when it is false, and it is in [0, 1] when the
\* score is
C35_HistoricalFactor ==
    [][dynamo_up =>
          \A d \in DecidedInStep :
              d.reason = "computed" =>
                  \E item \in {GetItem(table, generate_fingerprint(d.query))} :
                      /\ ~item.present => d.decision.factors.historical = Scale \div 2
                      /\ (item.present /\ "score" \in DOMAIN item /\ "success" \in DOMAIN item) =>
                            /\ item.success => d.decision.factors.historical = item.score
                            /\ ~item.success =>
                                  d.decision.factors.historical = Scale - item.score
                            /\ InUnit(item.score) => InUnit(d.decision.factors.historical)]_vars

\* a decision was computed with the historical factor 1 - 0.25 of an item
\* whose success was false
C35_Witness ==
    /\ last.kind = "route" /\ last.reason = "computed"
    /\ last.decision.factors.historical = Scale - Scale \div 4

(***************************************************************************)
(* Claims about the reuse of a persisted decision (SpecRoute)              *)
(***************************************************************************)
\* the item of a decision persisted for the fingerprint less than
\* cache_ttl_hours ago
PersistedAndFresh(fingerprint) ==
    /\ fingerprint \in DOMAIN table
    /\ "cluster" \in DOMAIN table[fingerprint]
    /\ "ttl" \in DOMAIN table[fingerprint]
    /\ now < table[fingerprint].ttl

\* C36: while the store is available, a submission that is not a
\* keep-alive and a /api/v1/route request whose fingerprint has a decision
\* persisted less than 24 h ago get the persisted cluster, score and
\* factors; nothing is probed, analysed or written to the table
C36_PersistedDecisionReused ==
    [][dynamo_up =>
          \A d \in DecidedInStep :
              (/\ d.status \in {0, 200}
               /\ d.kind = "statement" => ~IsKeepaliveCore(d.query)
               /\ PersistedAndFresh(generate_fingerprint(d.query))) =>
                  /\ d.reason = "cached"
                  /\ d.cluster = table[generate_fingerprint(d.query)].cluster
                  /\ d.decision.score = table[generate_fingerprint(d.query)].score
                  /\ d.decision.factors = table[generate_fingerprint(d.query)].factors
                  /\ d.sent = <<>>
                  /\ d.saved = 0
                  /\ table' = table]_vars

\* a submission forwarded to emr-standard on a cached decision, twelve
\* hours or more after it was persisted
C36_Witness ==
    /\ now > 0
    /\ dynamo_up
    /\ \E i \in Slots :
          /\ h[i].pc = "stmt_wait"
          /\ h[i].info.reason = "cached"
          /\ h[i].info.cluster = "emr-standard"
          /\ PersistedAndFresh(generate_fingerprint(h[i].info.query))
          /\ table[generate_fingerprint(h[i].info.query)].ttl = cache_ttl_hours

\* C37: when a decision is computed over a reachable store and the table
\* holds an item for the fingerprint, the item is expired (an item without
\* ttl counts as expired, as in the lookup), the historical factor is the
\* item's score, or 1 - score after a failure, and the score is computed
\* with that factor
C37_ExpiredRecordIsHistory ==
    [][dynamo_up =>
          \A d \in DecidedInStep :
              d.reason = "computed" =>
                  \E item \in {GetItem(table, generate_fingerprint(d.query))} :
                      item.present =>
                          /\ DictGet(item, "ttl", 0) <= now
                          /\ "score" \in DOMAIN item =>
                                d.decision.factors.historical =
                                    IF DictGet(item, "success", TRUE)
                                    THEN item.score ELSE Scale - item.score
                          /\ d.decision.score =
                                (decision_engine.w1 * d.decision.factors.volume
                                 + decision_engine.w2 * d.decision.factors.complexity
                                 + decision_engine.w3 * d.decision.factors.historical)
                                    \div Scale]_vars

\* a decision computed a day after the first one for the statement, with
\* the score of the first as its historical factor
C37_Witness ==
    /\ last.kind = "route" /\ last.reason = "computed"
    /\ now >= cache_ttl_hours
    /\ last.decision.factors.historical # Scale \div 2
    /\ last.decision.factors.historical =
          decide(<<>>, analyze_complexity(last.query), Scale \div 2, decision_engine).score
    /\ last.decision.score # last.decision.factors.historical

\* C38: a request that persists a decision leaves under the fingerprint an
\* item of exactly the decision's cluster, score and factors and the
\* expiration now + 24 h; the outcome fields of the item it replaces are
\* absent
C38_PersistReplacesRecord ==
    [][dynamo_up =>
          \A d \in DecidedInStep :
              (d.status \in {0, 200} /\ d.reason \in {"computed", "metadata"}) =>
                  table'[generate_fingerprint(d.query)] =
                      [present |-> TRUE,
                       cluster |-> d.decision.cluster,
                       score |-> d.decision.score,
                       factors |-> d.decision.factors,
                       ttl |-> now + cache_ttl_hours]]_vars

\* the decision computed over an expired item whose success was false has
\* replaced that item: the table holds the decision and no outcome field
C38_Witness ==
    /\ last.kind = "route" /\ last.reason = "computed"
    /\ last.decision.factors.historical = Scale - Scale \div 4
    /\ generate_fingerprint(last.query) \in DOMAIN table
    /\ table[generate_fingerprint(last.query)].score = last.decision.score
    /\ DOMAIN table[generate_fingerprint(last.query)] \cap {"execution_time", "cost", "success"} = {}
    /\ table[generate_fingerprint(last.query)].ttl = now + cache_ttl_hours

(***************************************************************************)
(* SpecNoData: the core with the default configuration in front of a       *)
(* backend whose probe finds no table (it fails, reports a view error or   *)
(* an empty plan) or one table; statements of no, little and full          *)
(* complexity are routed and submitted.                                    *)
(***************************************************************************)
\* a statement without join, aggregation, subquery or filter
S_BARE == <<"select", " ", "a", " ", "from", " ", "s", ".", "t">>

SubSelect == <<"(", "select", " ">>

\* a statement of eight nested subqueries:
\* select (select (select ... (select 1))...)
S_NESTED ==
    <<"select", " ">> \o SubSelect \o SubSelect \o SubSelect \o SubSelect
        \o SubSelect \o SubSelect \o SubSelect \o SubSelect
        \o <<"1", ")", ")", ")", ")", ")", ")", ")", ")">>

NoDataQueries == {S_BARE, S_PLAIN, S_NESTED}

NoDataBackends ==
    {FailingBackend,
     [io |-> <<ErrPage(MSG_CATALOG)>>, dist |-> SC_FAIL],
     [io |-> <<OkPage(<<Cell("json_object", <<>>)>>, TRUE)>>, dist |-> <<OkPage(<<>>, TRUE)>>],
     [io |-> SC_TABLE(SmallMiB), dist |-> SC_FAIL]}

InitNoData ==
    /\ InitCommon
    /\ service = "core"
    /\ BYPASS_MODE = TRUE
    /\ dynamo_up \in BOOLEAN
    /\ explain_backend \in NoDataBackends

NextNoData ==
    \/ \E q \in NoDataQueries : RouteQuery(q, explain_backend.io, explain_backend.dist)
    \/ \E q \in NoDataQueries : StatementStart(1, q, explain_backend.io, explain_backend.dist)
    \/ \E r \in ProbeReplies : StatementFinish(1, r)

SpecNoData == InitNoData /\ [][NextNoData]_vars

\* C39: with the default weights and thresholds, a decision computed for a
\* statement whose probe found no table and whose fingerprint has no item
\* in the table has the score 0.35 + 0.3 * fc, between 0.35 and 0.65, and
\* the cluster emr-standard
C39_NoDataGoesToStandard ==
    [][\A d \in DecidedInStep :
          (/\ d.reason = "computed"
           /\ decision_engine = DefaultConfig
           /\ DOMAIN analyze_query_io(d.io_script, d.dist_script).tables = {}
           /\ generate_fingerprint(d.query) \notin DOMAIN table) =>
              /\ d.decision.score =
                    (35 * Scale) \div 100 + (3 * d.decision.factors.complexity) \div 10
              /\ d.decision.score >= (35 * Scale) \div 100
              /\ d.decision.score <= (65 * Scale) \div 100
              /\ d.cluster = "emr-standard"]_vars

\* the statement of eight subqueries, whose complexity factor is 1, was
\* decided without probe data and history with the score 0.65
C39_Witness ==
    /\ last.kind = "route" /\ last.reason = "computed"
    /\ last.query = S_NESTED
    /\ last.decision.factors.complexity = Scale
    /\ last.decision.factors.volume = Scale \div 2
    /\ last.decision.factors.historical = Scale \div 2
    /\ last.decision.score = (65 * Scale) \div 100
    /\ last.cluster = "emr-standard"

(***************************************************************************)
(* SpecGateway: the gateway proxy in front of a core that answers with a   *)
(* configured cluster, with a name that is not configured, without a name, *)
(* with another status, or not at all.                                     *)
(***************************************************************************)
GatewayCoreReplies ==
    {[kind |-> "ok", cluster |-> c] : c \in {"emr-standard", "emr-large", ""}}
        \cup {[kind |-> "non200", cluster |-> "emr-standard"],
              [kind |-> "timeout"], [kind |-> "error"]}

GatewayQueries == {S_KEEPALIVE, S_PLAIN}

GatewayStatementReplies == {TimeoutReply, Resp(200, "object", Id1, <<>>)}

InitGateway ==
    /\ InitCommon
    /\ service = "gateway"
    /\ BYPASS_MODE = TRUE
    /\ dynamo_up = FALSE
    /\ explain_backend = FailingBackend

NextGateway ==
    \/ \E i \in Slots, q \in GatewayQueries : GwStatementStart(i, q)
    \/ \E i \in Slots, r \in GatewayCoreReplies : GwRouted(i, r)
    \/ \E i \in Slots, r \in GatewayStatementReplies : StatementFinish(i, r)

SpecGateway == InitGateway /\ [][NextGateway]_vars

\* the core gave no routing decision: no answer, an answer of another
\* status, or a cluster name that is not configured
NoRoutingDecision(core_reply) ==
    \/ core_reply.kind # "ok"
    \/ core_reply.cluster \notin DOMAIN CLUSTER_URLS

\* C40: when the core gives no routing decision the gateway answers no
\* error: it forwards the statement to ecs, and the tracker holds ecs for
\* the query id the backend returns
C40_CoreFailureFallsBackToEcs ==
    /\ [][\A i \in Slots, r \in GatewayCoreReplies :
             (GwRouted(i, r) /\ NoRoutingDecision(r)) =>
                 /\ h'[i].pc = "stmt_wait"
                 /\ h'[i].info.reason = "fallback"
                 /\ h'[i].info.status = 0
                 /\ h'[i].info.forwarded
                 /\ h'[i].info.cluster = "ecs"
                 /\ h'[i].info.content = ForwardedContent(h[i].query)]_vars
    /\ [][\A i \in Slots :
             (/\ h[i].pc = "stmt_wait"
              /\ h[i].info.reason = "fallback"
              /\ h'[i].pc = "idle"
              /\ last'.id # "") =>
                 /\ last'.id \in DOMAIN query_cluster_map'
                 /\ query_cluster_map'[last'.id] = "ecs"
                 /\ last'.status = 200]_vars

\* a statement for which the core gave no routing decision was forwarded
\* to ecs and answered with a query id, which the tracker maps to ecs
C40_Witness ==
    /\ last.kind = "statement" /\ last.reason = "fallback"
    /\ last.cluster = "ecs"
    /\ last.status = 200
    /\ last.id = Id1
    /\ Id1 \in DOMAIN query_cluster_map
    /\ query_cluster_map[Id1] = "ecs"

====
